------------------------------ MODULE FileTools ------------------------------
(***************************************************************************)
(* What the tools of a tier-2 worker do to the disk and what they answer:  *)
(* workers/execute.ts with the schemas of workers/tools.ts, the paths of   *)
(* workers/workspace.ts and the backends of workers/search.ts.  Workers of *)
(* one task share its workspace and run at the same time; a person may     *)
(* take long over a card.  A file is a sequence of passages.               *)
(*                                                                         *)
(* writeFile opens the file, which empties it, and then writes: another    *)
(* tool may look in between, and a write that fails leaves it empty.       *)
(* String.replace reads "$&" in its replacement as the passage matched.    *)
(* What a tool that looks finds, and to what its answer is cut, is left out.*)
(***************************************************************************)
EXTENDS Naturals, Sequences, FiniteSets

CONSTANTS Workers,      \* workers of the task
          Files,        \* paths, links followed
          Zone,         \* those under the workspace's root
          Passages,     \* what is written in files
          SearchProvider, SearchUrl, SearchKey,   \* search.provider; baseUrl, key: set or not
          Cap,          \* hits a search is asked for
          MaxCalls,     \* bound: calls of all the workers
          MaxWrites     \* bound: changes of one file

FileToolsAssumption ==
    /\ IsFiniteSet(Files) /\ Zone \subseteq Files
    /\ SearchProvider \in {"null", "searxng", "brave", "tavily"} /\ {SearchUrl, SearchKey} \subseteq BOOLEAN
    /\ "$&" \in Passages /\ "absent" \notin Passages /\ {Cap, MaxCalls, MaxWrites} \subseteq Nat

VARIABLES disk,       \* the passages of each file, or Absent
          ver,        \* history: how often each file was changed
          call,       \* the call of each worker
          at,         \* where its tool is
          base,       \* the file an edit read, with its version
          yes,        \* history: the version of the file when the call was let through
          exact,      \* history: every edit put there what it was asked to
          answer,     \* the last answer each worker got
          stray,      \* commands left by a shell that was killed
          calls

vars == <<disk, ver, call, at, base, yes, exact, answer, stray, calls>>

Absent == <<"absent">>
Texts == {<<>>} \cup {<<p>> : p \in Passages} \cup {<<p, q>> : p, q \in Passages}
Answer == [kind : {"none", "ok", "fail", "denied"}, hits : Seq({"page"})]
Plain(kind) == [kind |-> kind, hits |-> <<>>]

Plainly == Passages \ {"$&"}
Edits == [tool : {"edit_file"}, path : Files, old : Plainly, new : {<<>>} \cup {<<p>> : p \in Passages}]
Calls == Edits \cup
         [tool : {"write_file"}, path : Files, text : {<<p>> : p \in Passages}] \cup
         [tool : {"read_file", "list_dir", "glob", "grep"}, path : Files] \cup
         [tool : {"shell", "web_fetch", "web_search", "bad"}]

Init ==
    /\ disk \in [Files -> {Absent} \cup {<<p>> : p \in Plainly} \cup {<<p, p>> : p \in Plainly}]
    /\ ver = [f \in Files |-> 0]
    /\ call = [w \in Workers |-> [tool |-> "bad"]] /\ at = [w \in Workers |-> "idle"]
    /\ base = [w \in Workers |-> <<<<>>, 0>>] /\ yes = [w \in Workers |-> 0]
    /\ exact = TRUE
    /\ answer = [w \in Workers |-> Plain("none")]
    /\ stray = 0 /\ calls = 0

Changes(f, text) ==
    /\ disk' = [disk EXCEPT ![f] = text]
    /\ ver' = [ver EXCEPT ![f] = @ + 1]

Answers(w, a) ==
    /\ answer' = [answer EXCEPT ![w] = a]
    /\ at' = [at EXCEPT ![w] = "idle"]

Goes(w, place) ==
    /\ at' = [at EXCEPT ![w] = place]
    /\ answer' = [answer EXCEPT ![w] = Plain("none")]

HasPath(c) == c.tool \notin {"shell", "web_fetch", "web_search", "bad"}

(***************************************************************************)
(* Parse, classify, ask.                                                   *)
(***************************************************************************)
(* SearXNG needs an address, the other two have one and need a key.  A      *)
(* backend that lacks it is a warning and no backend.                      *)
HasBackend == CASE SearchProvider = "null" -> FALSE
                [] SearchProvider = "searxng" -> SearchUrl
                [] OTHER -> SearchKey

(* A tool that is not there, and arguments that do not parse. *)
ParseWorkerArgs(c) == c.tool # "bad" /\ (c.tool = "web_search" => HasBackend)

(* A path in the zone, a command that only reads and the tools for the web  *)
(* are not asked about; auto-approve lets any other through.               *)
Free(c) == HasPath(c) => c.path \in Zone

Begin(w, c) ==
    /\ at[w] = "idle" /\ calls < MaxCalls
    /\ calls' = calls + 1
    /\ call' = [call EXCEPT ![w] = c]
    /\ \/ ~ParseWorkerArgs(c) /\ Answers(w, Plain("fail")) /\ UNCHANGED yes
       \/ ParseWorkerArgs(c) /\ ~Free(c) /\ Goes(w, "asking") /\ UNCHANGED yes
       \/ /\ ParseWorkerArgs(c) /\ Goes(w, "acting")
          /\ yes' = IF HasPath(c) THEN [yes EXCEPT ![w] = ver[c.path]] ELSE yes
    /\ UNCHANGED <<disk, ver, base, exact, stray>>

Verdict(w) ==
    /\ at[w] = "asking"
    /\ \/ Answers(w, Plain("denied")) /\ UNCHANGED yes
       \/ Goes(w, "acting") /\ yes' = [yes EXCEPT ![w] = ver[call[w].path]]
    /\ UNCHANGED <<disk, ver, call, base, exact, stray, calls>>

(***************************************************************************)
(* The tools that write.                                                   *)
(***************************************************************************)
(* mkdir and the opening of the file, or their failure. *)
WriteFile(w) ==
    /\ at[w] = "acting" /\ call[w].tool = "write_file"
    /\ \/ Answers(w, Plain("fail")) /\ UNCHANGED <<disk, ver>>
       \/ /\ Goes(w, "writing") /\ ver[call[w].path] + 1 < MaxWrites
          /\ Changes(call[w].path, <<>>)
    /\ UNCHANGED <<call, base, yes, exact, stray, calls>>

WriteEnds(w) ==
    /\ at[w] = "writing"
    /\ \/ /\ call[w].tool = "write_file" /\ Changes(call[w].path, call[w].text)
          /\ Answers(w, Plain("ok"))
       \/ Answers(w, Plain("fail")) /\ UNCHANGED <<disk, ver>>
    /\ ver'[call[w].path] <= MaxWrites
    /\ UNCHANGED <<call, base, yes, exact, stray, calls>>

Places(text, p) == {i \in DOMAIN text : text[i] = p}

(* Slip: the file is read and matched while the card is still open. *)
EditReads_Early(w) ==
    LET c == call[w]
        once == disk[c.path] # Absent /\ Cardinality(Places(disk[c.path], c.old)) = 1
    IN  /\ at[w] \in {"asking", "acting"} /\ c.tool = "edit_file"
        /\ IF at[w] = "asking" \/ Free(c)
             THEN once /\ base' = [base EXCEPT ![w] = <<disk[c.path], ver[c.path]>>]
             ELSE base[w][1] # <<>> /\ UNCHANGED base
        /\ IF at[w] = "acting" THEN Goes(w, "matched") ELSE UNCHANGED <<at, answer>>
        /\ UNCHANGED <<disk, ver, call, yes, exact, stray, calls>>

(* An edit is refused unless its anchor is in the file, and once. *)
EditReads(w) ==
    LET c == call[w]
        once == disk[c.path] # Absent /\ Cardinality(Places(disk[c.path], c.old)) = 1
    IN  /\ at[w] = "acting" /\ c.tool = "edit_file"
        /\ IF once
             THEN /\ Goes(w, "matched")
                  /\ base' = [base EXCEPT ![w] = <<disk[c.path], ver[c.path]>>]
             ELSE Answers(w, Plain("fail")) /\ UNCHANGED base
        /\ UNCHANGED <<disk, ver, call, yes, exact, stray, calls>>

(* What replace puts in the place of old_text. *)
Inserted(c) == IF c.new = <<"$&">> THEN <<c.old>> ELSE c.new

With(text, c, new) ==
    LET i == CHOOSE i \in Places(text, c.old) : TRUE
    IN  SubSeq(text, 1, i - 1) \o new \o SubSeq(text, i + 1, Len(text))

(* The file written back is the one read, with the passage replaced. *)
EditWrites(w) ==
    LET c == call[w]
    IN  /\ at[w] = "matched" /\ ver[c.path] + 1 < MaxWrites
        /\ Changes(c.path, <<>>)
        /\ Goes(w, "editing")
        /\ UNCHANGED <<call, base, yes, exact, stray, calls>>

EditEnds(w) ==
    LET c == call[w]
    IN  /\ at[w] = "editing"
        /\ \/ /\ Changes(c.path, With(base[w][1], c, Inserted(c)))
              /\ exact' = (exact /\ disk'[c.path] = With(base[w][1], c, c.new))
              /\ Answers(w, Plain("ok"))
           \/ Answers(w, Plain("fail")) /\ UNCHANGED <<disk, ver, exact>>
        /\ ver'[c.path] <= MaxWrites
        /\ UNCHANGED <<call, base, yes, stray, calls>>

(***************************************************************************)
(* The tools that look.                                                    *)
(***************************************************************************)
(* A missing file, a directory that is gone, a bad pattern; an address that *)
(* is not http, a bad status, an aborted request: all are answers.         *)
Looks(w) ==
    /\ at[w] = "acting" /\ call[w].tool \in {"read_file", "list_dir", "glob", "grep", "web_fetch"}
    /\ \E kind \in {"ok", "fail"} : Answers(w, Plain(kind))
    /\ UNCHANGED <<disk, ver, call, base, yes, exact, stray, calls>>

(* What a backend lists, in its own shape; an entry without an address of   *)
(* the web is passed over, and no more are taken than were asked for.      *)
Rows == UNION {[1 .. n -> {"page", "other"}] : n \in 0 .. Cap + 2}
PickResults(rows) ==
    LET pages == Cardinality(Places(rows, "page"))
    IN  [i \in 1 .. (IF pages <= Cap THEN pages ELSE Cap) |-> "page"]

(* A base address that is not http, a bad status and a body that is not     *)
(* JSON are failures of the search; no hit at all is an answer.            *)
Searches(w) ==
    /\ at[w] = "acting" /\ call[w].tool = "web_search"
    /\ \/ Answers(w, Plain("fail"))
       \/ \E rows \in Rows : Answers(w, [Plain("ok") EXCEPT !.hits = PickResults(rows)])
    /\ UNCHANGED <<disk, ver, call, base, yes, exact, stray, calls>>

(***************************************************************************)
(* The shell.                                                              *)
(***************************************************************************)
(* It ends, cannot start, is out of time or is aborted.  The last two kill  *)
(* the shell and answer at once; what the shell had started is not killed. *)
ShellEnds(w) ==
    /\ at[w] = "acting" /\ call[w].tool = "shell"
    /\ \E left \in 0 .. 1, kind \in {"ok", "fail"} :
         /\ kind = "ok" => left = 0
         /\ stray' = stray + left /\ Answers(w, Plain(kind))
    /\ UNCHANGED <<disk, ver, call, base, yes, exact, calls>>

(* A command at work, or one that was left, changes a file. *)
CommandWrites(f, text) ==
    /\ stray > 0 \/ \E w \in Workers : at[w] = "acting" /\ call[w].tool = "shell"
    /\ ver[f] < MaxWrites
    /\ Changes(f, text)
    /\ UNCHANGED <<call, at, base, yes, exact, answer, stray, calls>>

StrayEnds ==
    /\ stray > 0 /\ stray' = stray - 1
    /\ UNCHANGED <<disk, ver, call, at, base, yes, exact, answer, calls>>

WorkerStep(w) ==
    \/ \E c \in Calls : Begin(w, c)
    \/ Verdict(w) \/ WriteFile(w) \/ WriteEnds(w) \/ EditReads(w) \/ EditWrites(w) \/ EditEnds(w)
    \/ Looks(w) \/ Searches(w) \/ ShellEnds(w)

Next == \/ \E w \in Workers : WorkerStep(w)
        \/ \E f \in Files, p \in Passages : CommandWrites(f, <<p>>)
        \/ StrayEnds

Spec == Init /\ [][Next]_vars

----------------------------------------------------------------------------
TypeOK ==
    /\ disk \in [Files -> {Absent} \cup Texts] /\ ver \in [Files -> 0 .. MaxWrites]
    /\ answer \in [Workers -> Answer] /\ \A w \in Workers : Len(answer[w].hits) <= Cap
    /\ call \in [Workers -> Calls] /\ stray \in 0 .. MaxCalls /\ exact \in BOOLEAN

(* A person may think for an hour.  What others did to the file meanwhile    *)
(* is what the edit is matched against and what it keeps: an edit undoes     *)
(* only what was written between its own read and its own write.           *)
EditsWhatIsThere ==
    \A w \in Workers : at[w] \in {"matched", "editing"} => base[w][2] >= yes[w]

(* tools.ts, of edit_file: "Replace one exact passage in a file."  What is   *)
(* there afterwards is what the file was with new_text for old_text.       *)
EditsExactly == exact
============================================================================
