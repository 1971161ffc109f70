-------------------------------- MODULE Desk --------------------------------
(***************************************************************************)
(* The surfaces of the daemon that have a person or a disk on their other  *)
(* side: the dashboard's panels of figures and drafts (Pages) and its      *)
(* registry (Editors), the chat of the command line (Chat), the tools that *)
(* work on files (FileTools), the requests that start a task (Projects)    *)
(* and the cap on what it spends (Budget).                                 *)
(* They meet the core through rows, events and streams the core's own      *)
(* modules describe and share no state with one another: `part` says which *)
(* of them moves, the others are at rest.  Surfaces adds those of Wire,    *)
(* which have an upstream or a reader on the other side.                   *)
(***************************************************************************)
EXTENDS Integers, Sequences

CONSTANTS Tabs, MaxSeq, MaxAsks, MaxPresses,
          Names, Prices, MaxActs, MaxOthers,
          MaxLines, MaxSaid,
          Workers, Files, Zone, Passages, SearchProvider, SearchUrl, SearchKey, Cap,
          MaxCalls, MaxWrites,
          Slugs, Registered, Upstream, Tools, Price, Wanted, Default, Harnesses, Uncapped,
          MaxTasks, MaxEdits,
          Ceilings, MaxRounds, MaxPasses, MaxSpent, MaxOut, MaxMoves

VARIABLES part,
          page, tabs, seq, seen, asks, figure, stale, draft, copy, card, verb, reloads, warned,
          presses,
          row, shown, opened, form, touched, under, patches, loads, stage, mode, report, returned,
          acts, others,
          typed, queue, live, closed, phase, code, messages, feed, failed, interrupted, pending,
          flight, cancel, turn, net, sent, told, threw, turns,
          disk, ver, call, at, base, yes, exact, answer, stray, calls,
          project, listed, behind, on, up, tasks, reply, edits,
          ceiling, spent, budgetWarned, place, rounds, reminded, passes, out, note, dropped, moves

pages == <<page, tabs, seq, seen, asks, figure, stale, draft, copy, card, verb, reloads, warned,
           presses>>
editors == <<row, shown, opened, form, touched, under, patches, loads, stage, mode, report,
             returned, acts, others>>
chat == <<typed, queue, live, closed, phase, code, messages, feed, failed, interrupted, pending,
          flight, cancel, turn, net, sent, told, threw, turns>>
files == <<disk, ver, call, at, base, yes, exact, answer, stray, calls>>
requests == <<project, listed, behind, on, up, tasks, reply, edits>>
budget == <<ceiling, spent, budgetWarned, place, rounds, reminded, passes, out, note, dropped,
            moves>>
desk == <<part, pages, editors, chat, files, requests, budget>>

G == INSTANCE Pages WITH shown <- figure, failed <- stale, told <- warned
E == INSTANCE Editors WITH typed <- touched, phase <- stage
C == INSTANCE Chat WITH task <- turn
F == INSTANCE FileTools
P == INSTANCE Projects WITH Models <- Registered, page <- listed
B == INSTANCE Budget

ASSUME DeskAssumption ==
    /\ G!PagesAssumption /\ E!EditorsAssumption /\ C!ChatAssumption /\ F!FileToolsAssumption
    /\ P!ProjectsAssumption /\ B!BudgetAssumption

Some(S) == CHOOSE x \in S : TRUE

DeskParts == {"pages", "editors", "chat", "files", "requests", "budget"}

(* The part that moves starts in any of its initial states, the others in  *)
(* one.                                                                    *)
DeskInit ==
    /\ part \in DeskParts \cup {"none"}
    /\ C!Init
    /\ part # "chat" => phase = "ask"
    /\ IF part = "budget" THEN B!Init ELSE B!Init /\ ceiling = Uncapped
    /\ IF part = "pages" THEN G!Init ELSE G!Init /\ page = "figures" /\ tabs = Some(Tabs)
    /\ IF part = "editors" THEN E!Init
       ELSE E!Init /\ row.source = "synced" /\ row.facts["name"] = Some(Names)
    /\ IF part = "files" THEN F!Init ELSE F!Init /\ \A f \in Files : disk[f] = F!Absent
    /\ IF part = "requests" THEN P!Init
       ELSE P!Init /\ project = [s \in Slugs |-> Some(P!Fresh)]

DeskNext ==
    \/ part = "pages" /\ G!Next /\ UNCHANGED <<part, editors, chat, files, requests, budget>>
    \/ part = "editors" /\ E!Next /\ UNCHANGED <<part, pages, chat, files, requests, budget>>
    \/ part = "chat" /\ C!Next /\ UNCHANGED <<part, pages, editors, files, requests, budget>>
    \/ part = "files" /\ F!Next /\ UNCHANGED <<part, pages, editors, chat, requests, budget>>
    \/ part = "requests" /\ P!Next /\ UNCHANGED <<part, pages, editors, chat, files, budget>>
    \/ part = "budget" /\ B!Next /\ UNCHANGED <<part, pages, editors, chat, files, requests>>

DeskSpec == DeskInit /\ [][DeskNext]_desk

----------------------------------------------------------------------------
(* A button does what it says: a tab shows the figures that were asked for   *)
(* and an approval overwrites only after a refusal (Pages), an import runs  *)
(* in the mode it was counted for, a save changes what was typed and warns  *)
(* before a row leaves its source (Editors).                               *)
DoesWhatItSays ==
    /\ [](part = "pages" => G!TypeOK /\ G!FiguresAreCurrent /\ G!OverwriteWasRefusedFirst)
    /\ [](part = "editors" => E!TypeOK /\ E!CountsDescribeTheButton)
    /\ E!SavesWhatWasTyped /\ E!WarnedBeforeLeaving

(* A chat passes on every line, in the order they were typed, and the next  *)
(* turn has the answer of the last (Chat).                                 *)
PassesLinesOn ==
    part = "chat" => C!TypeOK /\ C!InTypedOrder /\ C!LinesUsed /\ C!AnswersCarried

(* A tool edits the file that is there once its card was let through,       *)
(* whatever others did to it while the card was open (FileTools).          *)
EditsWhatIsThere == part = "files" => F!TypeOK /\ F!EditsWhatIsThere

(* A task stays within its project as that was when it started, its session *)
(* spends against the cap of its row, a refused request leaves no task, and *)
(* a switch of the page turns that switch only (Projects); near its cap the *)
(* task is told of it, and told to stop it starts no worker (Budget).       *)
StaysInBounds ==
    /\ [](part = "requests" => P!TypeOK /\ P!WithinItsProject /\ P!OneCap)
    /\ P!StartsOrNothing /\ P!SwitchOnly
    /\ [](part = "budget" => B!TypeOK)
    /\ B!ToldOfTheCap /\ B!StopMeansStop

============================================================================
