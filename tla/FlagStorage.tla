----------------------------- MODULE FlagStorage -----------------------------
(***************************************************************************)
(* The flag editor (src/flagd-ui): a GenServer, Storage, that holds the    *)
(* flag document and writes it to the file flagd reads, and the LiveView   *)
(* processes that read it once when they are mounted and cast their        *)
(* changes to it.  Pages are never told of each other's changes, and a     *)
(* cast is "Saved!" as soon as it is sent.                                 *)
(***************************************************************************)
EXTENDS Naturals, Sequences

CONSTANTS Flags, Variants,
          Editors,     \* advanced editors: LiveView processes
          Dashboards,  \* dashboards: LiveView processes
          Typed,       \* bound: the documents typed into an editor
          Api,         \* who replaces the document through the REST API
          Shipped,     \* the document the demo is delivered with
          NoFlags,     \* a JSON object without "flags"
          NotAMap,     \* JSON that is not an object
          Down,        \* no Storage process
          Torn,        \* a file that was not written to the end
          MaxMail,     \* bound: messages in the mailbox
          MaxFaults    \* bound: failed writes and kills

\* defaultVariant of every flag.
Defaults  == UNION {[fs -> Variants] : fs \in SUBSET Flags}
Documents == Defaults \cup {NoFlags, NotAMap}
Pages     == Editors \cup Dashboards

ASSUME FlagAssumption ==
    /\ Shipped \in Defaults /\ Typed \subseteq Documents
    /\ Editors \cap Dashboards = {} /\ Api \notin Pages
    /\ {NoFlags, NotAMap} \cap Defaults = {}
    /\ {Down, Torn} \cap Documents = {}
    /\ MaxMail \in Nat /\ MaxFaults \in Nat

VARIABLES storage,  \* the state of the GenServer, Down without one
          mailbox,  \* its messages
          file,     \* the file
          mode,     \* mode[p]: "closed", "mounting" (in GenServer.call), "open"
          content,  \* content[p]: what the page shows
          faults,   \* failed writes and kills
          \* History, for the properties only:
          loaded,   \* loaded[p]: what the page showed first
          fresh     \* editors never edited, with the file unchanged since

pages   == <<mode, content, loaded>>
vars    == <<storage, mailbox, file, pages, faults, fresh>>

\* A replacement remembers, as history, its page and what that page loaded.
Casts ==
    [op : {"replace"}, page : Editors \cup {Api}, doc : Documents, base : Documents]
      \cup [op : {"write"}, flag : Flags, variant : Variants]

Messages == Casts \cup [op : {"read"}, page : Pages]

\* Only the file can be torn: Storage and the pages hold whole documents.
TypeOK ==
    /\ storage \in Documents \cup {Down}
    /\ mailbox \in Seq(Messages)
    /\ file \in Documents \cup {Torn}
    /\ mode \in [Pages -> {"closed", "mounting", "open"}]
    /\ {content, loaded} \subseteq [Pages -> Documents]
    /\ faults \in 0 .. MaxFaults
    /\ fresh \subseteq Editors

Init ==
    /\ storage = Shipped
    /\ mailbox = << >>
    /\ file = Shipped
    /\ mode = [p \in Pages |-> "closed"]
    /\ content = [p \in Pages |-> Shipped]
    /\ loaded = [p \in Pages |-> Shipped]
    /\ faults = 0
    /\ fresh = {}

----------------------------------------------------------------------------
(* The pages                                                               *)

\* A message for a process that does not exist is lost without a word.
Post(msg) ==
    /\ Len(mailbox) < MaxMail
    /\ mailbox' = IF storage = Down THEN mailbox ELSE Append(mailbox, msg)

\* mount: GenServer.call(Storage, :read); without a Storage the page exits.
Mount(p) ==
    /\ mode[p] = "closed" /\ storage # Down
    /\ Post([op |-> "read", page |-> p])
    /\ mode' = [mode EXCEPT ![p] = "mounting"]
    /\ fresh' = fresh \ {p}
    /\ UNCHANGED <<storage, file, content, loaded, faults>>

Close(p) ==
    /\ mode[p] = "open"
    /\ mode' = [mode EXCEPT ![p] = "closed"]
    /\ UNCHANGED <<storage, mailbox, file, content, loaded, faults, fresh>>

\* The "edit" event.
Edit(p, doc) ==
    /\ mode[p] = "open" /\ doc # content[p]
    /\ content' = [content EXCEPT ![p] = doc]
    /\ fresh' = fresh \ {p}
    /\ UNCHANGED <<storage, mailbox, file, mode, loaded, faults>>

\* The "save" event, of content that Jason.decode accepts.
Save(p) ==
    /\ mode[p] = "open"
    /\ Post([op |-> "replace", page |-> p, doc |-> content[p], base |-> loaded[p]])
    /\ UNCHANGED <<storage, file, pages, faults, fresh>>

\* POST /api/write, of any JSON; the API loads nothing before.
ApiWrite(doc) ==
    /\ Post([op |-> "replace", page |-> Api, doc |-> doc, base |-> NotAMap])
    /\ UNCHANGED <<storage, file, pages, faults, fresh>>

\* The "flag_changed" event, for a flag the dashboard shows.
FlagChanged(p, f, v) ==
    /\ mode[p] = "open" /\ f \in DOMAIN content[p]
    /\ Post([op |-> "write", flag |-> f, variant |-> v])
    /\ UNCHANGED <<storage, file, pages, faults, fresh>>

----------------------------------------------------------------------------
(* Storage                                                                 *)

\* Mutant: the other flags are filtered out.
only_flag(flags, f, v) == [g \in DOMAIN flags \cap {f} |-> v]

update_flag(flags, f, v) ==
    [g \in DOMAIN flags |-> IF g = f THEN v ELSE flags[g]]

\* The document a cast makes of the state: Map.update adds "flags": %{} to an
\* object without flags.
NewState(msg) ==
    IF msg.op = "replace" THEN msg.doc
    ELSE IF storage = NoFlags THEN << >>
    ELSE update_flag(storage, msg.flag, msg.variant)

Receives(ops) == storage # Down /\ mailbox # << >> /\ Head(mailbox).op \in ops

\* handle_call(:read): a dashboard matches %{"flags" => flags} on the answer.
HandleRead ==
    LET p == Head(mailbox).page IN
    /\ Receives({"read"})
    /\ mailbox' = Tail(mailbox)
    /\ IF p \in Editors \/ storage \in Defaults
       THEN /\ mode' = [mode EXCEPT ![p] = "open"]
            /\ content' = [content EXCEPT ![p] = storage]
            /\ loaded' = [loaded EXCEPT ![p] = storage]
            /\ fresh' = fresh \cup ({p} \cap Editors)
       ELSE /\ mode' = [mode EXCEPT ![p] = "closed"]
            /\ UNCHANGED <<content, loaded, fresh>>
    /\ UNCHANGED <<storage, file, faults>>

\* Map.update raises on a state that is not a map.
Raises(msg) == msg.op = "write" /\ storage = NotAMap

\* Mutant: {:noreply, state}
WriteAndForget ==
    /\ Receives({"replace", "write"}) /\ ~Raises(Head(mailbox))
    /\ file' = NewState(Head(mailbox))
    /\ mailbox' = Tail(mailbox)
    /\ fresh' = IF file' = file THEN fresh ELSE {}
    /\ UNCHANGED <<storage, pages, faults>>

\* handle_cast: the file is written, then the state is the new document.
HandleCast ==
    /\ Receives({"replace", "write"}) /\ ~Raises(Head(mailbox))
    /\ file' = NewState(Head(mailbox))
    /\ storage' = file'
    /\ mailbox' = Tail(mailbox)
    /\ fresh' = IF file' = file THEN fresh ELSE {}
    /\ UNCHANGED <<pages, faults>>

\* The GenServer ends: its mailbox is gone, and who waits in a call exits.
Exit ==
    /\ storage' = Down
    /\ mailbox' = << >>
    /\ mode' = [p \in Pages |-> IF mode[p] = "mounting" THEN "closed" ELSE mode[p]]
    /\ UNCHANGED <<content, loaded, fresh>>

HandlerRaises ==
    /\ Receives({"write"}) /\ Raises(Head(mailbox))
    /\ Exit
    /\ UNCHANGED <<file, faults>>

\* File.write! raises, before or after the file has been truncated.
WriteFails ==
    /\ Receives({"replace", "write"}) /\ ~Raises(Head(mailbox))
    /\ faults < MaxFaults /\ faults' = faults + 1
    /\ file' \in {file, Torn}
    /\ Exit

\* The container is killed, maybe in the middle of a write; its pages go too.
Kill ==
    /\ faults < MaxFaults /\ faults' = faults + 1
    /\ file' \in IF Receives({"replace", "write"}) THEN {file, Torn} ELSE {file}
    /\ storage' = Down
    /\ mailbox' = << >>
    /\ mode' = [p \in Pages |-> "closed"]
    /\ UNCHANGED <<content, loaded, fresh>>

\* Mutant: init expects flags.
StartWithFlags ==
    /\ storage = Down /\ file \in Defaults
    /\ storage' = file
    /\ UNCHANGED <<mailbox, file, pages, faults, fresh>>

\* The supervisor, or the container runtime, starts Storage: init decodes the
\* file, and raises when it is torn.
Start ==
    /\ storage = Down /\ file # Torn
    /\ storage' = file
    /\ UNCHANGED <<mailbox, file, pages, faults, fresh>>

Handle == HandleRead \/ HandleCast \/ HandlerRaises

Next ==
    \/ \E p \in Pages : Mount(p) \/ Close(p)
    \/ \E p \in Editors : Save(p) \/ \E doc \in Typed : Edit(p, doc)
    \/ \E doc \in Typed : ApiWrite(doc)
    \/ \E p \in Dashboards, f \in Flags, v \in Variants : FlagChanged(p, f, v)
    \/ Handle
    \/ WriteFails
    \/ Kill
    \/ Start

\* A GenServer works off its mailbox, and a supervisor restarts it.
Spec == Init /\ [][Next]_vars /\ WF_vars(Handle) /\ WF_vars(Start)

----------------------------------------------------------------------------
Handled(ops) == Receives(ops) /\ storage' # Down /\ mailbox' = Tail(mailbox)

\* Whatever fails, the next Storage goes on with what the last one held: a
\* running Storage holds what flagd finds in the file.
MemoryIsFile == storage # Down => storage = file

\* To save a page that nobody typed into and that nobody's change has
\* overtaken changes nothing, whatever restarts lie between.
FreshSaveIsNoOp ==
    [][Handled({"replace"}) /\ Head(mailbox).page \in fresh => file' = file]_vars

\* A change on the dashboard touches no other flag, and takes none away.
OneFlagChanges ==
    [][Handled({"write"}) /\ storage \in Defaults =>
           /\ DOMAIN file' = DOMAIN file
           /\ \A f \in DOMAIN file : f # Head(mailbox).flag => file'[f] = file[f]]_vars

\* Nothing that can be saved keeps Storage from coming back: it restarts from
\* every document, even one that its handlers choke on, but not from a file
\* that was torn.
ComesBack == storage = Down ~> storage # Down \/ file = Torn

\* storage.ex:6-7: "to linearize reads and writes preventing conflicts and
\* last-writer-wins".  So what a page did not change in the document it loaded,
\* it does not change by saving.
NoLastWriterWins ==
    [][Handled({"replace"}) /\ {Head(mailbox).doc, Head(mailbox).base, file} \subseteq Defaults =>
           \A f \in DOMAIN file \cap DOMAIN Head(mailbox).doc \cap DOMAIN Head(mailbox).base :
               Head(mailbox).doc[f] = Head(mailbox).base[f] => file'[f] = file[f]]_vars

=============================================================================
