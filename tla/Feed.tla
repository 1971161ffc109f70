-------------------------------- MODULE Feed --------------------------------
(***************************************************************************)
(* What a live task promises those who listen to it: the abstract           *)
(* specification that LiveTask implements.  There is one log; a listener    *)
(* hears it from the first entry, one by one and in order, however late it  *)
(* joined, and is told that the log is over only when it is and everything  *)
(* was heard.  One that goes away may stop anywhere.                        *)
(***************************************************************************)
EXTENDS Naturals, Sequences

CONSTANT Readers

VARIABLES
  log,    \* number of entries so far; entry n is n
  end,    \* "open", or how the log ended: "over" or "broken"
  heard,  \* what each reader was given
  reader  \* "away", "listening", "left", or the end it was told

feed == <<log, end, heard, reader>>

Init ==
  /\ log = 0 /\ end = "open"
  /\ heard = [r \in Readers |-> <<>>]
  /\ reader = [r \in Readers |-> "away"]

Grow ==
  /\ end = "open" /\ log' = log + 1
  /\ UNCHANGED <<end, heard, reader>>

Finish ==
  /\ end = "open" /\ end' \in {"over", "broken"}
  /\ UNCHANGED <<log, heard, reader>>

Join(r) ==
  /\ reader[r] = "away" /\ end = "open"
  /\ reader' = [reader EXCEPT ![r] = "listening"]
  /\ UNCHANGED <<log, end, heard>>

Hear(r) ==
  /\ reader[r] = "listening" /\ Len(heard[r]) < log
  /\ heard' = [heard EXCEPT ![r] = Append(@, Len(@) + 1)]
  /\ UNCHANGED <<log, end, reader>>

Told(r) ==
  /\ reader[r] = "listening" /\ end # "open" /\ Len(heard[r]) = log
  /\ reader' = [reader EXCEPT ![r] = end]
  /\ UNCHANGED <<log, end, heard>>

Leave(r) ==
  /\ reader[r] = "listening"
  /\ reader' = [reader EXCEPT ![r] = "left"]
  /\ UNCHANGED <<log, end, heard>>

Next ==
  \/ Grow \/ Finish
  \/ \E r \in Readers : Join(r) \/ Hear(r) \/ Told(r) \/ Leave(r)

Spec == Init /\ [][Next]_feed
=============================================================================
