---------------------------- MODULE MCAppGeneric ----------------------------
\* Instances of the app for TLC: which requests are made and how they nest.
EXTENDS AppGeneric
=============================================================================
