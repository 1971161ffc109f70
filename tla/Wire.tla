-------------------------------- MODULE Wire --------------------------------
(***************************************************************************)
(* What a model call, once made (ModelCall), is turned into on its way: a   *)
(* stream between two dialects (Relay), a conversation between them        *)
(* (Dialects), the rows and events it is billed by and the view folded out *)
(* of these (View), and the totals and tables made of the rows (Panels).   *)
(* They share no state with one another: `leg` says which of them moves,   *)
(* the others are at rest.                                                 *)
(***************************************************************************)
EXTENDS Integers, Sequences

CONSTANTS MaxParts, MaxMessages,
          MaxItems, MaxCosts, MaxCap, MaxEvents, MaxCrashes,
          Models, MaxRecords, MaxTime, MaxLog, MaxOlder, Limit

VARIABLES leg,
          kind, quirk, blocks, parts, adapter, chunks, line,
          client, upstream, uttered, texts, made, open,
          task, items, approval, spend, cap, log, owed, crashes, untold,
          bills, faults, history, filter, rows, more, pagedBack, tail, back, raced

relay == <<kind, quirk, blocks, parts, adapter, chunks, line>>
dialects == <<client, upstream, uttered, texts, made, open>>
view == <<task, items, approval, spend, cap, log, owed, crashes, untold>>
panels == <<bills, faults, history, filter, rows, more, pagedBack, tail, back, raced>>
wire == <<leg, relay, dialects, view, panels>>

R == INSTANCE Relay WITH said <- blocks
D == INSTANCE Dialects WITH said <- uttered
V == INSTANCE View WITH costs <- spend, lost <- untold
N == INSTANCE Panels WITH costs <- bills, failures <- faults, log <- history, MaxEvents <- MaxLog

ASSUME WireAssumption ==
    R!RelayAssumption /\ D!DialectsAssumption /\ V!ViewAssumption /\ N!PanelsAssumption

Legs == {"relay", "dialects", "view", "panels"}

(* The leg that moves starts in any of its initial states, the others in   *)
(* one.                                                                    *)
WireInit ==
    /\ leg \in Legs \cup {"none"}
    /\ R!Init /\ D!Init /\ V!Init /\ N!Init
    /\ leg # "relay" => kind = "google"
    /\ leg # "dialects" => client = "openai" /\ upstream = "openai"

WireNext ==
    \/ leg = "relay" /\ R!Next /\ UNCHANGED <<leg, dialects, view, panels>>
    \/ leg = "dialects" /\ D!Next /\ UNCHANGED <<leg, relay, view, panels>>
    \/ leg = "view" /\ V!Next /\ UNCHANGED <<leg, relay, dialects, panels>>
    \/ leg = "panels" /\ N!Next /\ UNCHANGED <<leg, relay, dialects, view>>

WireSpec == WireInit /\ [][WireNext]_wire

----------------------------------------------------------------------------
(* Between two dialects: an adapter keeps its contract however its stream   *)
(* is cut, every client reads what the model said (Relay), and a request   *)
(* has all that was said, each result right after its calls (Dialects).    *)
SaysWhatWasSaid ==
    /\ leg = "relay" =>
          R!TypeOK /\ R!ContractKept /\ R!AlwaysWellFormed /\ R!ReadsWhatWasSaid
    /\ leg = "dialects" => D!TypeOK /\ D!ResultsFollow /\ D!AllSaid

(* What is shown is what is there: the folded log tells the rows (View),    *)
(* windows and groupings add up, and the event table is a stretch of the   *)
(* log and offers older rows when there are some (Panels).                 *)
ShowsWhatIsThere ==
    /\ leg = "view" => V!TypeOK /\ V!ToldUnlessLost /\ V!BillComplete
    /\ leg = "panels" => N!TypeOK /\ N!PanelsAddUp /\ N!NoHolesUnlessRaced

============================================================================
