----------------------------- MODULE MCStreamBuf -----------------------------
\* ByteStream's own next-state relation is not used: its calls are StreamBuf's.
EXTENDS StreamBuf
=============================================================================
