----------------------------- MODULE FlagProofs -----------------------------
(***************************************************************************)
(* The flags, where they are edited and where one of them puts load on a   *)
(* service: what the flag file keeps through casts, raises, failed writes, *)
(* kills and restarts, for any number of flags, pages and faults; and that *)
(* no start that races a stop leaves load workers behind, for any number   *)
(* of threads that serve requests.                                         *)
(***************************************************************************)
EXTENDS FlagStorage, CpuLoad, TLAPS

\* A message that page p posted for itself, and not as a change of one flag.
OfPage(msg, p) == msg.op \in {"read", "replace"} /\ msg.page = p

\* A page that waits for its document has posted nothing since: what it once
\* saved is handled before.
ReadsComeLast ==
    \A i \in 1 .. Len(mailbox) : mailbox[i].op = "read" =>
        /\ mode[mailbox[i].page] = "mounting"
        /\ \A j \in i + 1 .. Len(mailbox) : ~OfPage(mailbox[j], mailbox[i].page)

\* A fresh page, and what it has posted to be saved, is what the file holds,
\* with or without a Storage, unless the file is torn.
FreshIsFile ==
    file # Torn =>
        /\ \A p \in fresh : content[p] = file
        /\ \A i \in 1 .. Len(mailbox) :
               mailbox[i].op = "replace" /\ mailbox[i].page \in fresh => mailbox[i].doc = file

IInv == TypeOK /\ MemoryIsFile /\ ReadsComeLast /\ FreshIsFile

----------------------------------------------------------------------------
\* What a message carries.
LEMMA MessageFields ==
    ASSUME NEW msg \in Messages
    PROVE  /\ msg.op \in {"read", "replace", "write"}
           /\ msg.op = "read" => msg.page \in Pages
           /\ msg.op = "replace" => msg.page \in Editors \cup {Api} /\ msg.doc \in Documents
           /\ msg.op = "write" => msg.flag \in Flags /\ msg.variant \in Variants
    BY DEF Messages, Casts

\* No handler makes anything but a document.
LEMMA NewStateIsDocument ==
    ASSUME TypeOK, NEW msg \in Messages, msg.op \in {"replace", "write"}, storage # Down,
           ~Raises(msg)
    PROVE  NewState(msg) \in Documents
    <1>1. CASE msg.op = "replace"
        BY <1>1, MessageFields DEF NewState
    <1>2. CASE msg.op = "write" /\ storage = NoFlags
        <2>1. << >> \in [{} -> Variants]
            OBVIOUS
        <2>2. {} \in SUBSET Flags
            OBVIOUS
        <2> QED
            BY <1>2, <2>1, <2>2 DEF NewState, Documents, Defaults
    <1>3. CASE msg.op = "write" /\ storage # NoFlags
        <2>1. storage \in Defaults
            BY <1>3 DEF Raises, TypeOK, Documents
        <2>2. PICK fs \in SUBSET Flags : storage \in [fs -> Variants]
            BY <2>1 DEF Defaults
        <2>3. update_flag(storage, msg.flag, msg.variant) \in [fs -> Variants]
            BY <1>3, <2>2, MessageFields DEF update_flag
        <2> QED
            BY <1>3, <2>3 DEF NewState, Documents, Defaults
    <1> QED
        BY <1>1, <1>2, <1>3

LEMMA InitIInv == Init => IInv
    BY FlagAssumption
    DEF Init, IInv, TypeOK, MemoryIsFile, ReadsComeLast, FreshIsFile, Documents

\* A message at the end of the mailbox, or lost for want of a Storage.
LEMMA PostIInv ==
    ASSUME IInv, NEW msg \in Messages, Post(msg),
           UNCHANGED <<storage, file, content, loaded, faults>>,
           mode' \in [Pages -> {"closed", "mounting", "open"}], fresh' \subseteq fresh,
           \A p \in Pages : mode[p] = "mounting" => mode'[p] = "mounting",
           \A i \in 1 .. Len(mailbox) : mailbox[i].op = "read" => ~OfPage(msg, mailbox[i].page),
           msg.op = "read" => storage # Down /\ mode'[msg.page] = "mounting",
           msg.op = "replace" /\ msg.page \in fresh => msg.doc = content[msg.page]
    PROVE  IInv'
    <1> USE DEF IInv
    <1>1. mailbox \in Seq(Messages) /\ mailbox' \in Seq(Messages)
        BY DEF TypeOK, Post
    <1>2. TypeOK'
        BY <1>1 DEF TypeOK
    <1>3. \A i \in 1 .. Len(mailbox) : mailbox[i] \in Messages
        BY <1>1
    <1>4. CASE mailbox' = mailbox
        BY <1>2, <1>3, <1>4, MessageFields DEF MemoryIsFile, ReadsComeLast, FreshIsFile
    <1>5. CASE mailbox' = Append(mailbox, msg)
        <2>1. /\ Len(mailbox') = Len(mailbox) + 1 /\ mailbox'[Len(mailbox) + 1] = msg
              /\ \A i \in 1 .. Len(mailbox) : mailbox'[i] = mailbox[i]
            BY <1>1, <1>5
        <2>2. ReadsComeLast'
            BY <1>1, <1>3, <2>1, MessageFields DEF ReadsComeLast
        <2>3. FreshIsFile'
            BY <1>1, <2>1 DEF FreshIsFile
        <2> QED
            BY <1>2, <2>2, <2>3 DEF MemoryIsFile
    <1> QED
        BY <1>4, <1>5 DEF Post

LEMMA PagesIInv ==
    ASSUME IInv, NEW p \in Pages, Mount(p) \/ Close(p) PROVE IInv'
    <1>1. CASE Mount(p)
        <2>1. [op |-> "read", page |-> p] \in Messages
            BY DEF Messages
        <2>2. mode' \in [Pages -> {"closed", "mounting", "open"}] /\ mode[p] = "closed"
            BY <1>1 DEF Mount, IInv, TypeOK
        <2>3. ASSUME NEW i \in 1 .. Len(mailbox), mailbox[i].op = "read"
              PROVE  mailbox[i].page # p
            BY <2>2, <2>3 DEF IInv, ReadsComeLast
        <2> QED
            BY <1>1, <2>1, <2>2, <2>3, PostIInv DEF Mount, IInv, TypeOK, OfPage
    <1>2. CASE Close(p)
        <2>1. TypeOK'
            BY <1>2 DEF Close, IInv, TypeOK
        <2>2. ASSUME NEW i \in 1 .. Len(mailbox), mailbox[i].op = "read"
              PROVE  mode'[mailbox[i].page] = "mounting"
            <3>1. mailbox[i].page \in Pages /\ mode[mailbox[i].page] = "mounting"
                BY <2>2, MessageFields DEF IInv, TypeOK, ReadsComeLast
            <3> QED
                BY <1>2, <3>1 DEF Close, IInv, TypeOK
        <2> QED
            BY <1>2, <2>1, <2>2
            DEF Close, IInv, MemoryIsFile, ReadsComeLast, FreshIsFile
    <1> QED
        BY <1>1, <1>2

LEMMA EditIInv ==
    ASSUME IInv, NEW p \in Editors, NEW doc \in Typed, Edit(p, doc) PROVE IInv'
    <1>1. doc \in Documents /\ p \in Pages
        BY FlagAssumption DEF Pages
    <1>2. TypeOK'
        BY <1>1 DEF Edit, IInv, TypeOK
    <1>3. FreshIsFile'
        <2>1. \A q \in fresh' : q \in fresh /\ content'[q] = content[q]
            BY <1>1 DEF Edit, IInv, TypeOK, Pages
        <2> QED
            BY <2>1 DEF Edit, IInv, FreshIsFile
    <1> QED
        BY <1>2, <1>3 DEF Edit, IInv, MemoryIsFile, ReadsComeLast

LEMMA CastIInv ==
    ASSUME IInv,
           \/ \E p \in Editors : Save(p)
           \/ \E doc \in Typed : ApiWrite(doc)
           \/ \E p \in Dashboards, f \in Flags, v \in Variants : FlagChanged(p, f, v)
    PROVE  IInv'
    <1> USE DEF IInv, pages
    <1>1. mode \in [Pages -> {"closed", "mounting", "open"}]
        BY DEF TypeOK
    <1>2. ASSUME NEW p \in Editors, Save(p) PROVE IInv'
        <2> DEFINE msg == [op |-> "replace", page |-> p, doc |-> content[p], base |-> loaded[p]]
        <2>1. msg \in Messages
            BY DEF Messages, Casts, TypeOK, Pages
        <2>2. ASSUME NEW i \in 1 .. Len(mailbox), mailbox[i].op = "read"
              PROVE  mailbox[i].page # p
            BY <1>2, <2>2 DEF Save, ReadsComeLast
        <2> QED
            BY <1>1, <1>2, <2>1, <2>2, PostIInv DEF Save, OfPage
    <1>3. ASSUME NEW doc \in Typed, ApiWrite(doc) PROVE IInv'
        <2> DEFINE msg == [op |-> "replace", page |-> Api, doc |-> doc, base |-> NotAMap]
        <2>1. msg \in Messages
            BY FlagAssumption DEF Messages, Casts, Documents
        <2>2. Api \notin Pages /\ Api \notin fresh
            BY FlagAssumption DEF TypeOK, Pages
        <2>3. ASSUME NEW i \in 1 .. Len(mailbox), mailbox[i].op = "read"
              PROVE  mailbox[i].page # Api
            BY <2>2, <2>3, MessageFields DEF TypeOK
        <2> QED
            BY <1>1, <1>3, <2>1, <2>2, <2>3, PostIInv DEF ApiWrite, OfPage
    <1>4. ASSUME NEW p \in Dashboards, NEW f \in Flags, NEW v \in Variants, FlagChanged(p, f, v)
          PROVE  IInv'
        <2> DEFINE msg == [op |-> "write", flag |-> f, variant |-> v]
        <2>1. msg \in Messages
            BY DEF Messages, Casts
        <2> QED
            BY <1>1, <1>4, <2>1, PostIInv DEF FlagChanged, OfPage
    <1> QED
        BY <1>2, <1>3, <1>4

----------------------------------------------------------------------------
\* What is left of the mailbox once its head has been handled.
LEMMA Rest ==
    ASSUME TypeOK, mailbox # << >>, mailbox' = Tail(mailbox)
    PROVE  /\ mailbox' \in Seq(Messages) /\ Head(mailbox) \in Messages
           /\ Head(mailbox) = mailbox[1] /\ 1 \in 1 .. Len(mailbox)
           /\ Len(mailbox) \in Nat /\ Len(mailbox') = Len(mailbox) - 1
           /\ \A i \in 1 .. Len(mailbox') :
                  mailbox'[i] = mailbox[i + 1] /\ i + 1 \in 1 .. Len(mailbox)
    BY DEF TypeOK

LEMMA HandleReadIInv ==
    ASSUME IInv, HandleRead PROVE IInv'
    <1> DEFINE p == Head(mailbox).page
    <1> USE DEF IInv
    <1>1. /\ mailbox # << >> /\ mailbox' = Tail(mailbox) /\ Head(mailbox).op = "read"
          /\ storage # Down /\ storage' = storage /\ file' = file
        BY DEF HandleRead, Receives
    <1>2. p \in Pages /\ storage = file /\ storage \in Documents /\ file # Torn
        BY <1>1, Rest, MessageFields, FlagAssumption DEF TypeOK, MemoryIsFile
    <1>3. \A j \in 2 .. Len(mailbox) : ~OfPage(mailbox[j], p)
        BY <1>1, Rest DEF ReadsComeLast
    <1>4. /\ \A q \in Pages : q # p => mode'[q] = mode[q]
          /\ \/ /\ p \in Editors \/ storage \in Defaults
                /\ content' = [content EXCEPT ![p] = storage]
                /\ fresh' = fresh \cup ({p} \cap Editors)
             \/ content' = content /\ fresh' = fresh
        BY DEF HandleRead, TypeOK
    <1>5. TypeOK'
        <2>1. mode' \in [Pages -> {"closed", "mounting", "open"}]
              /\ {content', loaded'} \subseteq [Pages -> Documents]
            BY <1>2 DEF HandleRead, TypeOK
        <2> QED
            BY <1>1, <1>4, <2>1, Rest DEF TypeOK, HandleRead
    <1>6. ReadsComeLast'
        <2> SUFFICES ASSUME NEW i \in 1 .. Len(mailbox'), mailbox'[i].op = "read"
                     PROVE  /\ mode'[mailbox'[i].page] = "mounting"
                            /\ \A j \in i + 1 .. Len(mailbox') :
                                   ~OfPage(mailbox'[j], mailbox'[i].page)
            BY DEF ReadsComeLast
        <2> DEFINE q == mailbox[i + 1].page
        <2>1. mailbox'[i] = mailbox[i + 1] /\ i + 1 \in 1 .. Len(mailbox)
              /\ mailbox[i + 1] \in Messages
            BY <1>1, Rest DEF TypeOK
        <2>2. q \in Pages /\ q # p
            BY <1>1, <1>3, <2>1, Rest, MessageFields DEF OfPage
        <2>3. mode[q] = "mounting" /\ \A j \in i + 2 .. Len(mailbox) : ~OfPage(mailbox[j], q)
            BY <2>1 DEF ReadsComeLast
        <2>4. mode'[q] = "mounting"
            BY <1>4, <2>2, <2>3
        <2>5. ASSUME NEW j \in i + 1 .. Len(mailbox') PROVE ~OfPage(mailbox'[j], q)
            <3>1. mailbox'[j] = mailbox[j + 1] /\ j + 1 \in i + 2 .. Len(mailbox)
                BY <1>1, <2>1, <2>5, Rest
            <3> QED
                BY <2>3, <3>1
        <2> QED
            BY <2>1, <2>4, <2>5
    <1>7. FreshIsFile'
        <2>1. \A q \in fresh' : content'[q] = file
            BY <1>2, <1>4 DEF FreshIsFile, TypeOK, Pages
        <2>2. ASSUME NEW i \in 1 .. Len(mailbox'), mailbox'[i].op = "replace",
                     mailbox'[i].page \in fresh'
              PROVE  mailbox'[i].doc = file
            <3>1. mailbox'[i] = mailbox[i + 1] /\ i + 1 \in 2 .. Len(mailbox)
                BY <1>1, <2>2, Rest
            <3>2. mailbox'[i].page # p
                BY <1>3, <2>2, <3>1 DEF OfPage
            <3> QED
                BY <1>2, <1>4, <2>2, <3>1, <3>2 DEF FreshIsFile
        <2> QED
            BY <1>1, <2>1, <2>2 DEF FreshIsFile
    <1> QED
        BY <1>1, <1>5, <1>6, <1>7 DEF MemoryIsFile

\* A cast makes the file and the state one document; a file that changes leaves
\* no page fresh.
LEMMA HandleCastIInv ==
    ASSUME IInv, HandleCast PROVE IInv'
    <1> USE DEF IInv, pages
    <1>1. /\ mailbox # << >> /\ mailbox' = Tail(mailbox)
          /\ Head(mailbox).op \in {"replace", "write"} /\ ~Raises(Head(mailbox))
          /\ storage # Down /\ file' = NewState(Head(mailbox)) /\ storage' = file'
          /\ fresh' = IF file' = file THEN fresh ELSE {}
          /\ UNCHANGED <<mode, content, loaded, faults>>
        BY DEF HandleCast, Receives
    <1>2. file' \in Documents
        BY <1>1, Rest, NewStateIsDocument
    <1>3. TypeOK'
        BY <1>1, <1>2, Rest DEF TypeOK
    <1>4. ReadsComeLast'
        BY <1>1, Rest DEF ReadsComeLast
    <1>5. FreshIsFile'
        <2>1. CASE file' = file
            BY <1>1, <2>1, Rest DEF FreshIsFile
        <2>2. CASE file' # file
            BY <1>1, <2>2 DEF FreshIsFile
        <2> QED
            BY <2>1, <2>2
    <1> QED
        BY <1>1, <1>3, <1>4, <1>5 DEF MemoryIsFile

\* However Storage ends, its mailbox goes with it, and the file is what it was
\* or torn.
LEMMA EndIInv ==
    ASSUME IInv, HandlerRaises \/ WriteFails \/ Kill PROVE IInv'
    <1> USE DEF IInv
    <1>1. /\ storage' = Down /\ mailbox' = << >> /\ file' \in {file, Torn}
          /\ UNCHANGED <<content, loaded, fresh>>
        BY DEF HandlerRaises, WriteFails, Kill, Exit
    <1>2. mode' \in [Pages -> {"closed", "mounting", "open"}] /\ faults' \in 0 .. MaxFaults
        BY FlagAssumption DEF HandlerRaises, WriteFails, Kill, Exit, TypeOK
    <1>3. TypeOK'
        BY <1>1, <1>2 DEF TypeOK
    <1> QED
        BY <1>1, <1>3 DEF MemoryIsFile, ReadsComeLast, FreshIsFile

LEMMA StepIInv == IInv /\ [Next]_vars => IInv'
    <1> SUFFICES ASSUME IInv, [Next]_vars PROVE IInv'
        OBVIOUS
    <1>1. CASE Start
        BY <1>1 DEF Start, pages, IInv, TypeOK, MemoryIsFile, ReadsComeLast, FreshIsFile
    <1>2. CASE UNCHANGED vars
        BY <1>2 DEF vars, pages, IInv, TypeOK, MemoryIsFile, ReadsComeLast, FreshIsFile
    <1>3. CASE Handle
        BY <1>3, HandleReadIInv, HandleCastIInv, EndIInv DEF Handle
    <1>4. CASE WriteFails \/ Kill
        BY <1>4, EndIInv
    <1> QED
        BY <1>1, <1>2, <1>3, <1>4, PagesIInv, EditIInv, CastIInv DEF Next

LEMMA Invariance == Spec => []IInv
    BY InitIInv, StepIInv, PTL DEF Spec

----------------------------------------------------------------------------
\* Documents, messages and pages stay what they are, whatever is typed or sent.
THEOREM TypeCorrect == Spec => []TypeOK
    <1>1. IInv => TypeOK
        BY DEF IInv
    <1> QED
        BY <1>1, Invariance, PTL

\* A running Storage holds what is in the file, through every failed write, kill
\* and restart (storage.ex).
THEOREM FileIsKept == Spec => []MemoryIsFile
    <1>1. IInv => MemoryIsFile
        BY DEF IInv
    <1> QED
        BY <1>1, Invariance, PTL

\* Only the handler of a cast takes one out of the mailbox and leaves Storage
\* running.
LEMMA HandledByCast ==
    ASSUME IInv, [Next]_vars, Handled({"replace", "write"})
    PROVE  HandleCast
    <1>1. /\ mailbox \in Seq(Messages) /\ mailbox # << >> /\ mailbox' = Tail(mailbox)
          /\ Head(mailbox).op \in {"replace", "write"} /\ storage # Down /\ storage' # Down
        BY DEF Handled, Receives, IInv, TypeOK
    <1>2. \A msg : mailbox' # mailbox /\ mailbox' # Append(mailbox, msg)
        <2>1. Len(mailbox') = Len(mailbox) - 1 /\ Len(mailbox) \in Nat
            BY <1>1
        <2>2. \A msg : Len(Append(mailbox, msg)) = Len(mailbox) + 1
            BY <1>1
        <2> QED
            BY <2>1, <2>2
    <1>3. \A msg : ~Post(msg)
        BY <1>1, <1>2 DEF Post
    <1>4. ~(UNCHANGED vars)
        BY <1>2 DEF vars
    <1>5. ~HandleRead
        BY <1>1 DEF HandleRead, Receives
    <1>6. ~HandlerRaises /\ ~WriteFails /\ ~Kill
        BY <1>1 DEF HandlerRaises, WriteFails, Kill, Exit
    <1>7. ~Start /\ \A p, doc : ~Close(p) /\ ~Edit(p, doc)
        BY <1>1, <1>2 DEF Start, Close, Edit
    <1>8. \A p, doc : ~Mount(p) /\ ~Save(p) /\ ~ApiWrite(doc)
        BY <1>3 DEF Mount, Save, ApiWrite
    <1>9. \A p, f, v : ~FlagChanged(p, f, v)
        BY <1>3 DEF FlagChanged
    <1> QED
        BY <1>4, <1>5, <1>6, <1>7, <1>8, <1>9 DEF Next, Handle

\* Saving what was loaded, when nothing has changed since, changes nothing, through
\* restarts and whatever else is in the mailbox (the save event of
\* advanced_editor.ex and handle_cast of storage.ex).
THEOREM FreshSavesChangeNothing == Spec => FreshSaveIsNoOp
    <1>1. ASSUME IInv, [Next]_vars
          PROVE  [Handled({"replace"}) /\ Head(mailbox).page \in fresh => file' = file]_vars
        <2> SUFFICES ASSUME Handled({"replace"}), Head(mailbox).page \in fresh PROVE file' = file
            OBVIOUS
        <2>1. HandleCast /\ Head(mailbox).op = "replace"
            BY <1>1, HandledByCast DEF Handled, Receives
        <2>2. file' = Head(mailbox).doc
            BY <2>1 DEF HandleCast, NewState
        <2>3. file # Torn
            BY <1>1, <2>1, FlagAssumption DEF IInv, TypeOK, MemoryIsFile, HandleCast, Receives
        <2>4. Head(mailbox) = mailbox[1] /\ 1 \in 1 .. Len(mailbox)
            BY <1>1, <2>1, Rest DEF IInv, HandleCast, Receives
        <2> QED
            BY <1>1, <2>1, <2>2, <2>3, <2>4 DEF IInv, FreshIsFile
    <1> QED
        BY <1>1, Invariance, PTL DEF Spec, FreshSaveIsNoOp

\* A dashboard change keeps every other flag (update_flag of storage.ex).
THEOREM OtherFlagsAreKept == Spec => OneFlagChanges
    <1> DEFINE Kept == /\ DOMAIN file' = DOMAIN file
                       /\ \A f \in DOMAIN file : f # Head(mailbox).flag => file'[f] = file[f]
    <1>1. ASSUME IInv, [Next]_vars
          PROVE  [Handled({"write"}) /\ storage \in Defaults => Kept]_vars
        <2> SUFFICES ASSUME Handled({"write"}), storage \in Defaults PROVE Kept
            OBVIOUS
        <2>1. HandleCast /\ Head(mailbox).op = "write" /\ storage = file
            BY <1>1, HandledByCast DEF Handled, Receives, IInv, MemoryIsFile
        <2> QED
            BY <2>1, FlagAssumption DEF HandleCast, NewState, update_flag
    <1> QED
        BY <1>1, Invariance, PTL DEF Spec, OneFlagChanges

(***************************************************************************)
(* The load that the flag adHighCpu puts on the ad service.                *)
(***************************************************************************)

AtInstance == {"flag", "test", "spawn", "set", "clear", "stop"}

LoadTypeOK ==
    /\ instance \in Threads \cup {NoInstance}
    /\ running \in [Threads -> BOOLEAN]
    /\ load \in [Threads -> Nat]
    /\ pc \in [Threads -> {"idle", "create", "return"} \cup AtInstance]
    /\ cpuload \in [Threads -> Threads \cup {NoInstance}]
    /\ \A t \in Threads : pc[t] = "return" => instance \in Threads
    /\ \A t \in Threads : pc[t] \in AtInstance => cpuload[t] \in Threads

\* Thread t is about to say of instance i that it runs, or to stop its workers.
Settles(t, i) == pc[t] \in {"set", "stop"} /\ cpuload[t] = i

\* Workers of an instance that does not know of them are about to be known or
\* stopped: the start is not over, or the stop that overtook it is not.
LoadIsSettled ==
    \A i \in Threads : load[i] > 0 /\ ~running[i] => \E t \in Threads : Settles(t, i)

LoadIInv == LoadTypeOK /\ LoadIsSettled

\* Types, for every set of threads.
THEOREM LoadTypeCorrect == LoadSpec => []LoadTypeOK
    <1>1. LoadInit => LoadTypeOK
        BY LoadAssumption DEF LoadInit, LoadTypeOK, AtInstance
    <1>2. LoadTypeOK /\ [LoadNext]_loadVars => LoadTypeOK'
        <2> SUFFICES ASSUME LoadTypeOK, [LoadNext]_loadVars PROVE LoadTypeOK'
            OBVIOUS
        <2> USE LoadAssumption DEF LoadTypeOK, AtInstance
        <2>1. CASE Switch
            BY <2>1 DEF Switch
        <2>2. ASSUME NEW t \in Threads, Step(t) PROVE LoadTypeOK'
            <3>1. CASE Look(t)
                BY <3>1 DEF Look, GoTo
            <3>2. CASE Create(t)
                BY <3>2 DEF Create, GoTo
            <3>3. CASE ReturnInstance(t)
                BY <3>3 DEF ReturnInstance, GoTo
            <3>4. CASE Execute(t)
                BY <3>4 DEF Execute, GoTo
            <3>5. CASE Test(t)
                BY <3>5 DEF Test, GoTo
            <3>6. CASE StartWorkers(t)
                <4>1. CASE pc[t] = "spawn"
                    <5>1. cpuload[t] \in Threads
                        BY <4>1
                    <5>2. load' \in [Threads -> Nat]
                        BY <3>6, <4>1, <5>1 DEF StartWorkers
                    <5> QED
                        BY <3>6, <4>1, <5>2 DEF StartWorkers, GoTo
                <4>2. CASE pc[t] = "set"
                    <5>1. running' \in [Threads -> BOOLEAN]
                        BY <3>6, <4>2 DEF StartWorkers
                    <5> QED
                        BY <3>6, <4>2, <5>1 DEF StartWorkers, GoTo
                <4> QED
                    BY <3>6, <4>1, <4>2 DEF StartWorkers
            <3>7. CASE Clear(t)
                BY <3>7 DEF Clear, GoTo
            <3>8. CASE StopWorkers(t)
                BY <3>8 DEF StopWorkers, GoTo
            <3> QED
                BY <2>2, <3>1, <3>2, <3>3, <3>4, <3>5, <3>6, <3>7, <3>8 DEF Step
        <2>3. CASE UNCHANGED loadVars
            BY <2>3 DEF loadVars
        <2> QED
            BY <2>1, <2>2, <2>3 DEF LoadNext
    <1> QED
        BY <1>1, <1>2, PTL DEF LoadSpec

\* A step of a thread that neither starts nor stops anything keeps what is settled.
LEMMA OthersSettle ==
    ASSUME LoadIInv, NEW t \in Threads, pc[t] \notin {"set", "stop"},
           UNCHANGED <<running, load>>,
           \A s \in Threads \ {t} : pc'[s] = pc[s] /\ cpuload'[s] = cpuload[s]
    PROVE  LoadIsSettled'
    <1> SUFFICES ASSUME NEW i \in Threads, load[i] > 0, ~running[i]
                 PROVE  \E s \in Threads : Settles(s, i)'
        BY DEF LoadIsSettled
    <1>1. PICK s \in Threads : Settles(s, i)
        BY DEF LoadIInv, LoadIsSettled
    <1>2. s # t
        BY <1>1 DEF Settles
    <1> QED
        BY <1>1, <1>2 DEF Settles

\* A start is not over before running is set; a stop is not over before the
\* workers are stopped.
LEMMA StepSettles ==
    ASSUME LoadIInv, NEW t \in Threads, Step(t) PROVE LoadIsSettled'
    <1> USE DEF LoadIInv, LoadTypeOK, AtInstance, GoTo
    <1>1. CASE Look(t) \/ Create(t) \/ ReturnInstance(t) \/ Execute(t) \/ Test(t)
        BY <1>1, OthersSettle DEF Look, Create, ReturnInstance, Execute, Test
    <1>2. CASE StartWorkers(t)
        <2>1. CASE pc[t] = "spawn"
            <3> SUFFICES ASSUME NEW i \in Threads, load'[i] > 0, ~running'[i]
                         PROVE  \E s \in Threads : Settles(s, i)'
                BY DEF LoadIsSettled
            <3>1. CASE i = cpuload[t]
                BY <1>2, <2>1, <3>1 DEF StartWorkers, Settles
            <3>2. CASE i # cpuload[t]
                <4>1. PICK s \in Threads : Settles(s, i)
                    BY <1>2, <2>1, <3>2 DEF StartWorkers, LoadIsSettled
                <4> QED
                    BY <1>2, <2>1, <4>1 DEF StartWorkers, Settles
            <3> QED
                BY <3>1, <3>2
        <2>2. CASE pc[t] = "set"
            <3> SUFFICES ASSUME NEW i \in Threads, load'[i] > 0, ~running'[i]
                         PROVE  \E s \in Threads : Settles(s, i)'
                BY DEF LoadIsSettled
            <3>1. i # cpuload[t] /\ load[i] > 0 /\ ~running[i]
                BY <1>2, <2>2 DEF StartWorkers
            <3>2. PICK s \in Threads : Settles(s, i)
                BY <3>1 DEF LoadIsSettled
            <3> QED
                BY <1>2, <2>2, <3>1, <3>2 DEF StartWorkers, Settles
        <2> QED
            BY <1>2, <2>1, <2>2 DEF StartWorkers
    <1>3. CASE Clear(t)
        <2> SUFFICES ASSUME NEW i \in Threads, load'[i] > 0, ~running'[i]
                     PROVE  \E s \in Threads : Settles(s, i)'
            BY DEF LoadIsSettled
        <2>1. CASE i = cpuload[t]
            BY <1>3, <2>1 DEF Clear, Settles
        <2>2. CASE i # cpuload[t]
            <3>1. PICK s \in Threads : Settles(s, i)
                BY <1>3, <2>2 DEF Clear, LoadIsSettled
            <3> QED
                BY <1>3, <3>1 DEF Clear, Settles
        <2> QED
            BY <2>1, <2>2
    <1>4. CASE StopWorkers(t)
        <2> SUFFICES ASSUME NEW i \in Threads, load'[i] > 0, ~running'[i]
                     PROVE  \E s \in Threads : Settles(s, i)'
            BY DEF LoadIsSettled
        <2>1. i # cpuload[t] /\ load[i] > 0 /\ ~running[i]
            BY <1>4 DEF StopWorkers
        <2>2. PICK s \in Threads : Settles(s, i)
            BY <2>1 DEF LoadIsSettled
        <2> QED
            BY <1>4, <2>1, <2>2 DEF StopWorkers, Settles
    <1> QED
        BY <1>1, <1>2, <1>3, <1>4 DEF Step

\* Once no request is under way, the workers that are there are known to their
\* instance (execute, spawnLoadWorkers and stopWorkers of CPULoad.java).
THEOREM NoLoadIsLeftBehind == LoadSpec => []IdleLoadIsKnown
    <1>1. LoadInit => LoadIsSettled
        BY DEF LoadInit, LoadIsSettled
    <1>2. LoadTypeOK /\ LoadIsSettled /\ [LoadNext]_loadVars => LoadIsSettled'
        <2> SUFFICES ASSUME LoadIInv, [LoadNext]_loadVars PROVE LoadIsSettled'
            BY DEF LoadIInv
        <2>1. CASE Switch
            BY <2>1 DEF Switch, LoadIInv, LoadIsSettled, Settles
        <2>2. CASE UNCHANGED loadVars
            BY <2>2 DEF loadVars, LoadIInv, LoadIsSettled, Settles
        <2> QED
            BY <2>1, <2>2, StepSettles DEF LoadNext
    <1>3. LoadIsSettled => IdleLoadIsKnown
        BY DEF LoadIsSettled, IdleLoadIsKnown, Settles
    <1> QED
        BY <1>1, <1>2, <1>3, LoadTypeCorrect, PTL DEF LoadSpec

=============================================================================
