----------------------------- MODULE MCStreaming -----------------------------
\* The instance of Streaming: callers with and without a stream key.
EXTENDS Streaming
AnyKey == BOOLEAN
=============================================================================
