------------------------------ MODULE Registry ------------------------------
(***************************************************************************)
(* The registry of models: rows and capability cards in one database, under *)
(* the hands of three writers. A human edits them over HTTP in the daemon;  *)
(* the command line runs `sync-models`, `card` and `import` in processes    *)
(* of its own; and every process, the daemon's boot included, first seeds   *)
(* what the config file declares. Each write is one SQL statement: between  *)
(* what a command reads and what it writes the daemon may act.              *)
(***************************************************************************)
EXTENDS Integers

CONSTANTS Models,      \* model ids, all of one provider
          Facts,       \* what may be known of a model (price, window, ...), 0 for unknown
          MaxEdits,    \* bound: what humans do over HTTP
          MaxCommands  \* bound: commands run, boots included

RegistryAssumption ==
    /\ 0 \in Facts /\ MaxEdits \in Nat /\ MaxCommands \in Nat
    /\ "none" \notin Models

VARIABLES config,    \* facts the config file declares, or Silent
          provider,  \* the provider's row is enabled: its key was there at the last seeding
          rows, cards,
          cmd,       \* the command that runs: "none", "fetch", "sync", "vanish" or "cards"
          regenerate,
          todo,      \* models the command has still to deal with
          catalog,   \* what the provider's catalog said of them
          held,      \* rows read and not written back yet
          asking,    \* the model whose card is being written, or "none"
          bundle,    \* the file of the last export
          leaving,   \* the model whose deletion has removed the card, or "none"
          edits, commands,
          typed,     \* history: the fact a human gave, or Silent
          corrected, \* history: the overrides a human gave
          chosen,    \* history: models a human switched on
          since      \* history: models touched by a human since they were read

human == <<typed, corrected, chosen, since>>
command == <<cmd, regenerate, todo, catalog, held, asking, commands>>
vars == <<config, provider, rows, cards, command, bundle, leaving, edits, human>>

Silent == -1
Row == [source : {"synced", "manual"}, on : BOOLEAN, fact : Facts]
NoRow == [source |-> "none", on |-> FALSE, fact |-> 0]
Card == [over : {"none", "mine", "theirs"}]    \* the generated half is not told apart
NoCard == [over |-> "no card"]
Known(m) == rows[m] # NoRow

Init ==
    /\ config \in [Models -> {Silent} \union Facts]
    /\ provider = TRUE
    /\ rows = [m \in Models |-> NoRow] /\ cards = [m \in Models |-> NoCard]
    /\ cmd = "none" /\ regenerate = FALSE /\ todo = {} /\ held = {} /\ asking = "none"
    /\ catalog = [m \in Models |-> Silent]
    /\ bundle = [rows |-> rows, cards |-> cards]
    /\ leaving = "none" /\ edits = 0 /\ commands = 0
    /\ typed = [m \in Models |-> Silent] /\ corrected = [m \in Models |-> "none"]
    /\ chosen = {} /\ since = {}

----------------------------------------------------------------------------
(* The editor, in the daemon.                                              *)
HumanActs == leaving = "none" /\ edits < MaxEdits /\ edits' = edits + 1

(* A changed fact takes the row off the sync path; the switch does not.    *)
Patched(r, f, on) == [source |-> IF f # r.fact THEN "manual" ELSE r.source, on |-> on, fact |-> f]

Touched(m) == since' = IF \E h \in held : h[1] = m THEN since \union {m} ELSE since
Switched(m, on) == chosen' = IF on THEN chosen \union {m} ELSE chosen \ {m}

PatchModel(m, f, on) ==
    /\ HumanActs /\ Known(m) /\ Patched(rows[m], f, on) # rows[m]
    /\ rows' = [rows EXCEPT ![m] = Patched(rows[m], f, on)]
    /\ typed' = IF f # rows[m].fact THEN [typed EXCEPT ![m] = f] ELSE typed
    /\ Switched(m, on) /\ Touched(m)
    /\ UNCHANGED <<config, provider, cards, command, bundle, leaving, corrected>>

CreateModel(m, f, on) ==
    /\ HumanActs /\ ~Known(m)
    /\ rows' = [rows EXCEPT ![m] = [source |-> "manual", on |-> on, fact |-> f]]
    /\ typed' = [typed EXCEPT ![m] = f]
    /\ Switched(m, on) /\ Touched(m)
    /\ UNCHANGED <<config, provider, cards, command, bundle, leaving, corrected>>

(* The card goes first, the row after it: it refers to the row.            *)
DeleteCard(m) ==
    /\ HumanActs /\ Known(m)
    /\ leaving' = m
    /\ cards' = [cards EXCEPT ![m] = NoCard] /\ corrected' = [corrected EXCEPT ![m] = "none"]
    /\ UNCHANGED <<config, provider, rows, command, bundle, typed, chosen, since>>

(* ... and stays, with the request refused, when a card came in between.   *)
DeleteModel ==
    /\ leaving # "none" /\ leaving' = "none"
    /\ IF cards[leaving] = NoCard
       THEN /\ rows' = [rows EXCEPT ![leaving] = NoRow]
            /\ typed' = [typed EXCEPT ![leaving] = Silent]
            /\ Switched(leaving, FALSE) /\ Touched(leaving)
       ELSE UNCHANGED <<rows, typed, chosen, since>>
    /\ UNCHANGED <<config, provider, cards, command, bundle, edits, corrected>>

SetOverrides(m, over) ==
    /\ HumanActs /\ cards[m] # NoCard /\ over # cards[m].over
    /\ cards' = [cards EXCEPT ![m].over = over] /\ corrected' = [corrected EXCEPT ![m] = over]
    /\ UNCHANGED <<config, provider, rows, command, bundle, leaving, typed, chosen, since>>

(* Overrides go out beside the card they correct, not folded into it.      *)
Export ==
    /\ leaving = "none"
    /\ bundle' = [rows |-> rows, cards |-> cards] /\ bundle' # bundle
    /\ UNCHANGED <<config, provider, rows, cards, command, leaving, edits, human>>

(* A bundle another machine sent.                                          *)
Foreign == {[rows |-> [m \in Models |-> [source |-> "synced", on |-> TRUE, fact |-> f]],
             cards |-> [m \in Models |-> [over |-> o]]] :
                f \in Facts \ {0}, o \in {"none", "theirs"}}

(* planImport: which rows and which cards of a bundle are written.         *)
PlanRows(b, known, overwrite) ==
    {m \in Models : known /\ b.rows[m] # NoRow /\ (Known(m) => overwrite)}
PlanCards(b, known, overwrite) ==
    {m \in Models : /\ b.cards[m] # NoCard
                    /\ Known(m) \/ m \in PlanRows(b, known, overwrite)
                    /\ cards[m] # NoCard => overwrite}

(* A card is written without overrides, which leaves those that are here,  *)
(* and the bundle's are set after it when it has any.                      *)
Imported(mine, theirs) ==
    IF theirs.over # "none" \/ mine = NoCard THEN theirs ELSE mine

(* `known`: this machine has the bundle's provider. A preview writes nothing. *)
Import(b, known, overwrite) ==
    LET ms == PlanRows(b, known, overwrite)  cs == PlanCards(b, known, overwrite) IN
    /\ HumanActs
    /\ rows' = [m \in Models |-> IF m \in ms THEN b.rows[m] ELSE rows[m]]
    /\ cards' = [m \in Models |-> IF m \in cs THEN Imported(cards[m], b.cards[m]) ELSE cards[m]]
    /\ typed' = [m \in Models |-> IF m \in ms THEN Silent ELSE typed[m]]
    /\ corrected' = [m \in Models |-> IF m \in cs /\ b.cards[m].over # "none" THEN b.cards[m].over
                                      ELSE corrected[m]]
    /\ chosen' = (chosen \ ms) \union {m \in ms : b.rows[m].on}
    /\ since' = since \union {m \in ms : \E h \in held : h[1] = m}
    /\ UNCHANGED <<config, provider, command, bundle, leaving>>

----------------------------------------------------------------------------
(* Every process begins so, an import from the command line included: what *)
(* the config file declares (as enabled) is written over the rows, and the *)
(* provider is on if this process has its key.                             *)
Declared == {m \in Models : config[m] # Silent}
Seed(key) ==
    /\ cmd = "none" /\ commands < MaxCommands /\ commands' = commands + 1
    /\ provider' = key
    /\ rows' = [m \in Models |-> IF m \in Declared
                                 THEN [source |-> "manual", on |-> TRUE, fact |-> config[m]] ELSE rows[m]]
    /\ typed' = [m \in Models |-> IF m \in Declared THEN config[m] ELSE typed[m]]
    /\ chosen' = chosen \union Declared
    /\ UNCHANGED <<config, cards, bundle, leaving, edits, corrected, since, catalog, held, asking>>

Boot(key) == Seed(key) /\ UNCHANGED <<cmd, regenerate, todo>>

StartSync(key) ==
    /\ Seed(key) /\ cmd' = (IF key THEN "fetch" ELSE "none")
    /\ UNCHANGED <<regenerate, todo>>

Command(step) == step /\ UNCHANGED <<config, provider, bundle, leaving, edits, commands>>

(* The catalog is read; an upstream that fails is reported and skipped.    *)
Fetch ==
    /\ cmd = "fetch"
    /\ \/ cmd' = "none" /\ UNCHANGED <<todo, catalog>>
       \/ \E c \in [Models -> {Silent} \union Facts] :
             /\ catalog' = c /\ todo' = {m \in Models : c[m] # Silent} /\ cmd' = "sync"
    /\ UNCHANGED <<rows, cards, regenerate, held, asking, human>>

(* Slip: a model of the catalog arrives switched on. *)
Merged_ArrivesOn(r, f) ==
    IF r = NoRow THEN [source |-> "synced", on |-> TRUE, fact |-> f]
    ELSE [r EXCEPT !.fact = IF r.source = "manual" /\ r.fact # 0 THEN r.fact ELSE f]

(* What a row becomes beside its catalog entry: a new one arrives switched *)
(* off, a human's has its gaps filled, a synced one is refreshed.          *)
Merged(r, f) ==
    IF r = NoRow THEN [source |-> "synced", on |-> FALSE, fact |-> f]
    ELSE [r EXCEPT !.fact = IF r.source = "manual" /\ r.fact # 0 THEN r.fact ELSE f]

SyncReads(m) ==
    /\ cmd = "sync" /\ held = {} /\ m \in todo
    /\ todo' = todo \ {m}
    /\ held' = IF Merged(rows[m], catalog[m]) = rows[m] THEN {} ELSE {<<m, Merged(rows[m], catalog[m])>>}
    /\ since' = {}
    /\ UNCHANGED <<rows, cards, cmd, regenerate, catalog, asking, typed, corrected, chosen>>

(* Rows of the provider that its catalog no longer has.                    *)
Gone == {m \in Models : Known(m) /\ catalog[m] = Silent /\ rows[m].source = "synced" /\ rows[m].on}
SyncLists ==
    /\ cmd = "sync" /\ held = {} /\ todo = {}
    /\ cmd' = "vanish" /\ since' = {}
    /\ held' = {<<m, [rows[m] EXCEPT !.on = FALSE]>> : m \in Gone}
    /\ UNCHANGED <<rows, cards, regenerate, todo, catalog, asking, typed, corrected, chosen>>

(* The whole row is written as it was read: an edit in between is undone.  *)
SyncWrites(h) ==
    /\ h \in held /\ held' = held \ {h}
    /\ rows' = [rows EXCEPT ![h[1]] = h[2]]
    /\ typed' = IF h[1] \in since THEN [typed EXCEPT ![h[1]] = Silent] ELSE typed
    /\ chosen' = IF h[1] \in since /\ h[2].on THEN chosen \union {h[1]} ELSE chosen
    /\ UNCHANGED <<cards, cmd, regenerate, todo, catalog, asking, corrected, since>>

SyncEnds ==
    /\ cmd = "vanish" /\ held = {} /\ cmd' = "none"
    /\ UNCHANGED <<rows, cards, regenerate, todo, catalog, held, asking, human>>

----------------------------------------------------------------------------
(* Cards, one model call after the other, for models listed at the start.  *)
StartCards(key, again, ms) ==
    /\ Seed(key) /\ ms # {} /\ \A m \in ms : rows'[m] # NoRow
    /\ cmd' = "cards" /\ regenerate' = again /\ todo' = ms

CardTurn(m) ==
    /\ cmd = "cards" /\ asking = "none" /\ m \in todo
    /\ todo' = todo \ {m}
    /\ asking' = IF ~regenerate /\ cards[m] # NoCard THEN "none" ELSE m
    /\ UNCHANGED <<rows, cards, cmd, regenerate, catalog, held, human>>

(* The generated half is replaced, the overrides are not its business.     *)
Stored(c) == IF c = NoCard THEN [over |-> "none"] ELSE c

CardAnswers ==
    /\ cmd = "cards" /\ asking # "none" /\ Known(asking)
    /\ cards' = [cards EXCEPT ![asking] = Stored(cards[asking])] /\ asking' = "none"
    /\ UNCHANGED <<rows, cmd, regenerate, todo, catalog, held, human>>

(* The model is gone: its card refers to nothing, the write throws, and    *)
(* the command dies with the rest of its batch undone.                     *)
CardThrows ==
    /\ cmd = "cards" /\ asking # "none" /\ ~Known(asking)
    /\ cmd' = "none" /\ todo' = {} /\ asking' = "none"
    /\ UNCHANGED <<rows, cards, regenerate, catalog, held, human>>

(* A call that fails, or a reply that is no card, is a line of the report. *)
CardFails ==
    /\ cmd = "cards" /\ asking # "none" /\ asking' = "none"
    /\ UNCHANGED <<rows, cards, cmd, regenerate, todo, catalog, held, human>>

CardsEnd ==
    /\ cmd = "cards" /\ asking = "none" /\ todo = {} /\ cmd' = "none"
    /\ UNCHANGED <<rows, cards, regenerate, todo, catalog, held, asking, human>>

Runs ==
    \/ Fetch \/ SyncLists \/ SyncEnds \/ CardAnswers \/ CardThrows \/ CardFails \/ CardsEnd
    \/ \E m \in Models : SyncReads(m) \/ CardTurn(m)
    \/ \E h \in held : SyncWrites(h)

Next ==
    \/ \E m \in Models, f \in Facts, on \in BOOLEAN : PatchModel(m, f, on) \/ CreateModel(m, f, on)
    \/ \E m \in Models : DeleteCard(m)
    \/ DeleteModel
    \/ \E m \in Models, over \in {"none", "mine"} : SetOverrides(m, over)
    \/ Export
    \/ \E b \in Foreign \union {bundle}, known, overwrite \in BOOLEAN :
          (b = bundle => known) /\ Import(b, known, overwrite)
    \/ \E key \in BOOLEAN : Boot(key) \/ StartSync(key)
    \/ \E key, again \in BOOLEAN, ms \in SUBSET Models : StartCards(key, again, ms)
    \/ Command(Runs)

(* A command's calls come back; the human need not do anything.            *)
FairSpec == Init /\ [][Next]_vars /\ WF_vars(Command(Runs)) /\ WF_vars(DeleteModel)

----------------------------------------------------------------------------
(* The state is well formed; a card has its model.                         *)
TypeOK ==
    /\ rows \in [Models -> Row \union {NoRow}] /\ cards \in [Models -> Card \union {NoCard}]
    /\ held \subseteq Models \X Row /\ todo \subseteq Models
    /\ asking # "none" => cmd = "cards"
    /\ held # {} => cmd \in {"sync", "vanish"}
    /\ \A m \in Models : cards[m] # NoCard => Known(m)

(* A fact a human gave, in the editor or in the config file, is what the   *)
(* row says until a human gives another: no sync puts the catalog's number *)
(* back. (Seeding gives the config file's; an edit that falls between the  *)
(* read and the write of one row by a sync in another process is lost.)    *)
HumanKept ==
    \A m \in Models : Known(m) /\ typed[m] \notin {Silent, 0} =>
        rows[m].fact = typed[m] /\ rows[m].source = "manual"

(* The corrections of a card survive its regeneration, a sync and an import *)
(* that brings none.                                                       *)
CorrectionKept == \A m \in Models : cards[m] # NoCard => cards[m].over = corrected[m]

(* No model answers for the user that no human switched on.                *)
OnByHuman == \A m \in Models : rows[m].on => m \in chosen

(* A model goes when a human deletes it: neither a catalog that misses it  *)
(* nor an import removes what costs and history refer to.                  *)
NothingLost == [][\A m \in Models : Known(m) /\ leaving # m => rows'[m] # NoRow]_vars

(* A command ends, whatever the human does meanwhile.                      *)
CommandEnds == []<>(cmd = "none")
============================================================================
