----------------------------- MODULE MCLocHold ------------------------------
\* A robot that is lost after two bad checks, and fails a few ticks later.
EXTENDS LocHold
=============================================================================
