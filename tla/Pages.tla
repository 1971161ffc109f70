-------------------------------- MODULE Pages --------------------------------
(***************************************************************************)
(* The panels of the dashboard that ask the daemon and show what it said:  *)
(* figures (CostsPanel, FailuresPanel), drafts to review (SkillsPanel,     *)
(* PracticesPanel).  A request is answered, fails, or is answered after    *)
(* the page has stopped caring; other clients and the owner's editor act   *)
(* on the daemon meanwhile.  `page` says which panel this is.              *)
(***************************************************************************)
EXTENDS Integers, Sequences, FiniteSets, SequencesExt

CONSTANTS Tabs,         \* ranges and groupings a figure can be asked for
          MaxSeq,       \* bound: events of the daemon
          MaxAsks,      \* bound: requests of a panel in flight
          MaxPresses    \* bound: presses of a button

PagesAssumption == {MaxSeq, MaxAsks, MaxPresses} \subseteq Nat

VARIABLES page, tabs, seq, seen, asks, shown, failed,       \* figures
          draft, copy, card, verb, reloads, told,           \* review; told is history
          presses

figures == <<tabs, seq, seen, asks, shown, failed>>
review == <<draft, copy, card, verb, reloads, told>>
vars == <<page, figures, review, presses>>

Nothing == 0
NoFigure == [tabs |-> CHOOSE t \in Tabs : TRUE, at |-> -1]
Asked(t) == [tabs |-> t, at |-> -1, live |-> TRUE]
Verb(kind) == [kind |-> kind, mine |-> TRUE]      \* mine: its card is still there
NoCard == [draft |-> Nothing, conflicted |-> FALSE, armed |-> FALSE]

Init ==
    /\ page \in {"figures", "review"}
    /\ tabs \in Tabs /\ seq = 0 /\ seen = 0 /\ asks = <<Asked(tabs)>>
    /\ shown = NoFigure /\ failed = FALSE
    /\ draft = Nothing /\ copy = Nothing /\ card = NoCard /\ verb = Verb("none")
    /\ reloads = <<>> /\ told = FALSE
    /\ presses = 0

Presses == presses < MaxPresses /\ presses' = presses + 1

(***************************************************************************)
(* Figures: the effect runs again when a tab or lastSeq changes, and gives *)
(* up the request of its last run.                                         *)
(***************************************************************************)
Effect(t) ==
    /\ Len(asks) < MaxAsks
    /\ asks' = Append([i \in DOMAIN asks |-> [asks[i] EXCEPT !.live = FALSE]], Asked(t))
    /\ UNCHANGED <<shown, failed>>

Tick == seen < seq /\ seen' \in (seen + 1) .. seq /\ UNCHANGED <<tabs, seq>> /\ Effect(tabs)

SetTab(t) == t # tabs /\ tabs' = t /\ UNCHANGED <<seq, seen>> /\ Effect(t)

(* The row is written before its event is sent. *)
Recorded == seq < MaxSeq /\ seq' = seq + 1 /\ UNCHANGED <<tabs, seen, asks, shown, failed>>

DaemonSums(i) ==
    /\ asks[i].at = -1 /\ asks' = [asks EXCEPT ![i].at = seq]
    /\ UNCHANGED <<tabs, seq, seen, shown, failed>>

(* What a request that was given up brings is looked at by nobody.  A       *)
(* failure leaves the last good numbers and says so.                       *)
FetchEnds(i) ==
    /\ asks' = RemoveAt(asks, i) /\ UNCHANGED <<tabs, seq, seen>>
    /\ \/ ~asks[i].live /\ UNCHANGED <<shown, failed>>
       \/ asks[i].live /\ failed' = TRUE /\ UNCHANGED shown
       \/ /\ asks[i].live /\ asks[i].at >= 0 /\ failed' = FALSE
          /\ shown' = [tabs |-> asks[i].tabs, at |-> asks[i].at]

Figures == /\ page = "figures"
           /\ \/ Tick \/ Recorded \/ \E t \in Tabs : SetTab(t)
              \/ \E i \in DOMAIN asks : DaemonSums(i) \/ FetchEnds(i)
           /\ UNCHANGED <<page, review, presses>>

(***************************************************************************)
(* Review of a draft of one name.  Its card is kept while the list shows a *)
(* draft of that name, whichever draft it is.                              *)
(***************************************************************************)
Reload == reloads' = IF Len(reloads) < MaxAsks THEN Append(reloads, -1) ELSE reloads

DaemonLists(i) ==
    /\ reloads[i] = -1 /\ reloads' = [reloads EXCEPT ![i] = draft]
    /\ UNCHANGED <<draft, copy, card, verb, told, presses>>

ListShown(i) ==
    /\ reloads' = RemoveAt(reloads, i)
    /\ \/ UNCHANGED card          \* it failed: the rows stay
       \/ /\ reloads[i] # -1
          /\ card' = IF reloads[i] = Nothing THEN NoCard ELSE [card EXCEPT !.draft = reloads[i]]
    /\ told' = (told /\ card'.draft # Nothing)
    /\ verb' = [verb EXCEPT !.mine = verb.mine /\ card'.draft # Nothing]
    /\ UNCHANGED <<draft, copy, presses>>

(* The distiller, the owner's editor and other clients. *)
OthersAct ==
    /\ seq < MaxSeq /\ seq' = seq + 1
    /\ \/ draft = Nothing /\ draft' = seq' /\ UNCHANGED copy
       \/ draft # Nothing /\ draft' = Nothing /\ copy' \in {copy, draft}
       \/ copy # Nothing /\ copy' = Nothing /\ UNCHANGED draft
    /\ UNCHANGED <<card, verb, reloads, told, presses>>

(* Mounting the panel. *)
Mount == Presses /\ Reload /\ UNCHANGED <<draft, copy, card, verb, told>>

Approve ==
    /\ card.draft # Nothing /\ verb.kind = "none" /\ Presses
    /\ verb' = Verb(IF card.conflicted THEN "overwrite" ELSE "approve")
    /\ UNCHANGED <<draft, copy, card, reloads, told>>

Arm == /\ card.draft # Nothing /\ verb.kind = "none" /\ ~card.armed
       /\ card' = [card EXCEPT !.armed = TRUE]
       /\ UNCHANGED <<draft, copy, verb, reloads, told, presses>>

Reject ==
    /\ card.armed /\ verb.kind = "none" /\ Presses
    /\ verb' = Verb("reject") /\ UNCHANGED <<draft, copy, card, reloads, told>>

(* What an approval that failed leaves of the button. *)
Conflicted(refusal) == refusal = "already exists"

Fails(refusal) ==
    IF verb.kind = "reject" \/ ~verb.mine
    THEN UNCHANGED <<card, told>>
    ELSE /\ card' = [card EXCEPT !.conflicted = Conflicted(refusal)]
         /\ told' = (refusal = "already exists")

Refused(refusal) == Fails(refusal) /\ UNCHANGED <<draft, copy, reloads>>

(* The route moves or deletes the draft that is there now; an answer may be *)
(* lost after that.                                                        *)
Answered ==
    /\ verb.kind # "none" /\ verb' = Verb("none") /\ UNCHANGED presses
    /\ \/ Refused("unreachable")
       \/ draft = Nothing /\ Refused("not found")
       \/ verb.kind = "approve" /\ draft # Nothing /\ copy # Nothing /\ Refused("already exists")
       \/ /\ draft # Nothing /\ ~(verb.kind = "approve" /\ copy # Nothing)
          /\ draft' = Nothing /\ copy' = IF verb.kind = "reject" THEN copy ELSE draft
          /\ \/ Reload /\ UNCHANGED <<card, told>>
             \/ UNCHANGED reloads /\ Fails("unreachable")

Review == /\ page = "review"
          /\ \/ /\ \/ Mount \/ Approve \/ Arm \/ Reject \/ Answered
                   \/ \E i \in DOMAIN reloads : DaemonLists(i) \/ ListShown(i)
                /\ UNCHANGED seq
             \/ OthersAct
          /\ UNCHANGED <<page, tabs, seen, asks, shown, failed>>

Next == Figures \/ Review
Spec == Init /\ [][Next]_vars

----------------------------------------------------------------------------
TypeOK ==
    /\ tabs \in Tabs /\ {seq, seen, draft, copy} \subseteq 0 .. MaxSeq /\ seen <= seq
    /\ asks \in Seq([tabs : Tabs, at : -1 .. MaxSeq, live : BOOLEAN]) /\ failed \in BOOLEAN
    /\ shown \in [tabs : Tabs, at : -1 .. MaxSeq]
    /\ card \in [draft : 0 .. MaxSeq, conflicted : BOOLEAN, armed : BOOLEAN]
    /\ verb \in [kind : {"none", "approve", "overwrite", "reject"}, mine : BOOLEAN] /\ told \in BOOLEAN
    /\ reloads \in Seq(-1 .. MaxSeq) /\ presses \in 0 .. MaxPresses

(* Once nothing that is cared for is on its way and nothing failed, the     *)
(* figures are those of the chosen tabs, and no older than the last event   *)
(* the page was told of.                                                    *)
FiguresAreCurrent ==
    page = "figures" /\ ~failed /\ (\A i \in DOMAIN asks : ~asks[i].live) =>
        shown.tabs = tabs /\ shown.at >= seen

(* SkillsPanel.tsx: a copy that is in the way "re-arms the approve button as *)
(* an explicit overwrite rather than retrying silently": while a card stays, *)
(* its approval overwrites only once the daemon has refused it for a copy.  *)
OverwriteWasRefusedFirst == card.conflicted \/ (verb.kind = "overwrite" /\ verb.mine) => told
============================================================================
