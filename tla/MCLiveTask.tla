----------------------------- MODULE MCLiveTask -----------------------------
(* A small instance of LiveTask for TLC.                                   *)
EXTENDS LiveTask

CONSTANTS r1, r2, r3

(* Three requests: two streams that may leave and come back under another   *)
(* name, and one plain response.                                            *)
MCReaders == {r1, r2, r3}
MCStreaming == {r1, r2}
=============================================================================
