-------------------------- MODULE DeploymentProofs ---------------------------
(***************************************************************************)
(* Proofs about the configuration file and the stored rows, for any number *)
(* of servers and editors, any keys, and edits of any length.              *)
(***************************************************************************)
EXTENDS Deployment, SharedLemmas, FiniteSetTheorems

-----------------------------------------------------------------------------
(* What the operators on files return                                      *)

\* Each entry that is left was there, and no earlier than it is now.
LEMMA OthersAre ==
    ASSUME NEW keys \in Seq(Entry), NEW k
    PROVE  /\ Others(keys, k) \in Seq(Entry)
           /\ \A j \in DOMAIN Others(keys, k) :
                 \E i \in DOMAIN keys : j <= i /\ Others(keys, k)[j] = keys[i]
<1> DEFINE N == Len(keys)
           Step(f, n) == IF n = 0 THEN <<>>
                         ELSE IF keys[n].id = k THEN f[n - 1] ELSE Append(f[n - 1], keys[n])
           Upto(f, m) == f = [n \in 0 .. m |-> Step(f, n)]
           Good(s, n) == /\ s \in Seq(Entry)
                         /\ \A j \in 1 .. Len(s) : \E i \in 1 .. n : j <= i /\ s[j] = keys[i]
                         /\ Len(s) <= n
<1>1. N \in Nat /\ DOMAIN keys = 1 .. N /\ \A i \in 1 .. N : keys[i] \in Entry
  OBVIOUS
<1>2. \E f : Upto(f, N)
  <2> DEFINE D == {n \in 1 .. N : keys[n].id = k}
  <2>1. PICK f : Filtering(keys, D, N, f)
    <3> HIDE DEF D
    <3> QED
      BY <1>1, FilteringExists
  <2>2. ASSUME NEW n \in 0 .. N PROVE f[n] = Step(f, n)
    <3>1. f[n] = IF n = 0 THEN <<>>
                 ELSE IF n \in D THEN f[n - 1] ELSE Append(f[n - 1], keys[n])
      BY <2>1 DEF Filtering
    <3>2. n # 0 => (n \in D <=> keys[n].id = k)
      OBVIOUS
    <3> QED
      BY <3>1, <3>2
  <2>3. f = [n \in 0 .. N |-> f[n]]
    BY <2>1 DEF Filtering
  <2> HIDE DEF Step
  <2> QED
    BY <2>2, <2>3
<1>3. PICK kept : Upto(kept, N) /\ Others(keys, k) = kept[N]
  BY <1>2 DEF Others
<1>4. \A n \in 0 .. N : kept[n] = Step(kept, n)
  BY <1>3
<1> DEFINE T == {n \in 0 .. N : Good(kept[n], n)}
<1>5. 0 \in T
  <2>1. 0 \in 0 .. N /\ kept[0] = <<>>
    BY <1>1, <1>4
  <2>2. <<>> \in Seq(Entry) /\ Len(<<>>) = 0
    OBVIOUS
  <2>3. Good(<<>>, 0)
    BY <2>2
  <2> HIDE DEF Good
  <2> QED
    BY <2>1, <2>3
<1>6. ASSUME NEW n \in 1 .. N, n - 1 \in T PROVE n \in T
  <2>1. Good(kept[n - 1], n - 1) /\ n \in 0 .. N /\ n # 0
    BY <1>6
  <2>2. kept[n] = Step(kept, n)
    BY <1>4, <2>1
  <2> DEFINE s == kept[n - 1]
  <2>3. CASE keys[n].id = k
    BY <2>1, <2>2, <2>3
  <2>4. CASE keys[n].id # k
    <3>1. kept[n] = Append(s, keys[n]) /\ keys[n] \in Entry /\ s \in Seq(Entry)
      BY <1>1, <2>1, <2>2, <2>4
    <3> HIDE DEF s
    <3>2. kept[n] \in Seq(Entry) /\ Len(kept[n]) = Len(s) + 1
      BY <3>1
    <3>3. ASSUME NEW j \in 1 .. Len(kept[n])
          PROVE  \E i \in 1 .. n : j <= i /\ kept[n][j] = keys[i]
      <4>1. CASE j \in 1 .. Len(s)
        <5>1. kept[n][j] = s[j]
          BY <3>1, <4>1
        <5>2. PICK i \in 1 .. n - 1 : j <= i /\ s[j] = keys[i]
          BY <2>1, <4>1 DEF s
        <5> QED
          BY <5>1, <5>2
      <4>2. CASE j = Len(s) + 1
        <5>1. kept[n][j] = keys[n]
          BY <3>1, <4>2
        <5>2. j <= n
          BY <2>1, <3>1, <4>2 DEF s
        <5> QED
          BY <5>1, <5>2
      <4> QED
        BY <3>1, <3>2, <4>1, <4>2
    <3>4. Len(kept[n]) <= n
      BY <2>1, <3>1, <3>2 DEF s
    <3> QED
      BY <2>1, <3>2, <3>3, <3>4
  <2> QED
    BY <2>3, <2>4
<1>7. Good(kept[N], N)
  <2>1. 0 .. N \subseteq T
    <3> HIDE DEF T
    <3> QED
      BY <1>1, <1>5, <1>6, Climb
  <2> QED
    BY <1>1, <2>1
<1>8. Others(keys, k) \in Seq(Entry) /\ Len(Others(keys, k)) \in Nat
  BY <1>3, <1>7
<1>9. DOMAIN Others(keys, k) = 1 .. Len(Others(keys, k))
  BY <1>8
<1> QED
  BY <1>1, <1>3, <1>7, <1>8, <1>9

\* The name of the i-th entry, which Definitions gives it.
NameOf(keys, i) == IF keys[i].id = None THEN KeyNames[i] ELSE keys[i].id

\* The pool has the names of the entries, and of each the last value.
LEMMA DefinitionsAre ==
    ASSUME NEW keys \in Seq(Entry)
    PROVE  /\ DOMAIN Definitions(keys) = {NameOf(keys, i) : i \in DOMAIN keys}
           /\ \A k \in DOMAIN Definitions(keys) : \E i \in DOMAIN keys :
                 /\ NameOf(keys, i) = k
                 /\ \A j \in DOMAIN keys : NameOf(keys, j) = k => j <= i
                 /\ Definitions(keys)[k] = keys[i].value
<1> DEFINE Last(i) == \A j \in DOMAIN keys : NameOf(keys, j) = NameOf(keys, i) => j <= i
           Chosen(k) == CHOOSE i \in DOMAIN keys : NameOf(keys, i) = k /\ Last(i)
<1>1. Definitions(keys)
        = [k \in {NameOf(keys, i) : i \in DOMAIN keys} |-> keys[Chosen(k)].value]
  BY DEF Definitions, NameOf
<1>2. ASSUME NEW k \in {NameOf(keys, i) : i \in DOMAIN keys}
      PROVE  \E i \in DOMAIN keys : NameOf(keys, i) = k /\ Last(i)
  <2> DEFINE T == {i \in DOMAIN keys : NameOf(keys, i) = k}
  <2>1. Len(keys) \in Nat /\ T \subseteq 1 .. Len(keys) /\ T # {}
    OBVIOUS
  <2>2. PICK i \in T : \A j \in T : j <= i
    <3> HIDE DEF T
    <3> QED
      BY <2>1, Greatest
  <2> QED
    BY <2>2
<1>3. ASSUME NEW k \in {NameOf(keys, i) : i \in DOMAIN keys}
      PROVE  Chosen(k) \in DOMAIN keys /\ NameOf(keys, Chosen(k)) = k /\ Last(Chosen(k))
  BY <1>2, <1>3
<1> HIDE DEF Chosen
<1> QED
  BY <1>1, <1>3

\* There is a name for each entry.
Named(keys) == Len(keys) <= Len(KeyNames)

LEMMA DefinitionsTyped ==
    ASSUME NEW keys \in Seq(Entry), Named(keys)
    PROVE  /\ DOMAIN Definitions(keys) \subseteq Ids
           /\ Definitions(keys) \in [DOMAIN Definitions(keys) -> Values]
<1> DEFINE d == Definitions(keys)
<1>1. \A i \in DOMAIN keys : keys[i] \in Entry
  OBVIOUS
<1>2. \A i \in DOMAIN keys : NameOf(keys, i) \in Ids
  <2>1. KeyNames \in Seq(Ids) /\ Len(KeyNames) \in Nat /\ Len(keys) \in Nat
    BY DeploymentAssumption
  <2>2. DOMAIN keys \subseteq DOMAIN KeyNames
    BY <2>1 DEF Named
  <2>3. \A i \in DOMAIN keys : KeyNames[i] \in Ids
    BY <2>1, <2>2
  <2> QED
    BY <1>1, <2>3 DEF NameOf, Entry
<1>3. \A k \in DOMAIN d : d[k] \in Values
  BY <1>1, DefinitionsAre DEF Entry
<1>4. d = [k \in DOMAIN d |-> d[k]]
  BY DEF Definitions
<1> QED
  BY <1>2, <1>3, <1>4, DefinitionsAre

\* Neither removing entries nor adding one where there is a name for it leaves an
\* entry without.
LEMMA OthersNamed ==
    ASSUME NEW keys \in Seq(Entry), Named(keys), NEW k
    PROVE  Named(Others(keys, k))
<1> DEFINE s == Others(keys, k)
<1>1. s \in Seq(Entry) /\ \A j \in DOMAIN s : \E i \in DOMAIN keys : j <= i
  BY OthersAre
<1> HIDE DEF s
<1>2. Len(s) \in Nat /\ Len(keys) \in Nat /\ Len(KeyNames) \in Nat
  BY <1>1, DeploymentAssumption
<1>3. Len(s) <= Len(keys)
  <2>1. CASE Len(s) = 0
    BY <1>2, <2>1
  <2>2. CASE Len(s) # 0
    <3>1. Len(s) \in DOMAIN s
      BY <1>1, <1>2, <2>2
    <3>2. PICK i \in DOMAIN keys : Len(s) <= i
      BY <1>1, <3>1
    <3> QED
      BY <1>2, <3>2
  <2> QED
    BY <2>1, <2>2
<1> QED
  BY <1>2, <1>3 DEF Named, s

LEMMA AdditionNamed ==
    ASSUME NEW keys \in Seq(Entry), Len(keys) < Len(KeyNames), NEW a \in Additions
    PROVE  Append(keys, a) \in Seq(Entry) /\ Named(Append(keys, a))
<1>1. a \in Entry
  BY DeploymentAssumption DEF Entry
<1>2. Len(Append(keys, a)) = Len(keys) + 1 /\ Len(keys) \in Nat /\ Len(KeyNames) \in Nat
  BY <1>1, DeploymentAssumption
<1> QED
  BY <1>1, <1>2 DEF Named

\* What two texts that run into each other read as is still a file, or nothing.
LEMMA TornAre ==
    ASSUME NEW f \in File, NEW g \in File, NEW r \in Torn(f, g), r # None
    PROVE  r \in File /\ Named(r.keys)
<1>1. f.base \in BOOLEAN /\ g.base \in BOOLEAN /\ f.keys \in Seq(Entry) /\ g.keys \in Seq(Entry)
  BY DEF File
<1>2. Len(f.keys) \in Nat /\ Len(g.keys) \in Nat
  BY <1>1
<1>3. ASSUME NEW n \in 0 .. Len(f.keys) PROVE SubSeq(f.keys, 1, n) \in Seq(Entry)
  BY <1>1, <1>2, <1>3
<1>4. Heads(f) \subseteq Seq(Entry)
  <2>1. \A n \in 0 .. Len(f.keys) - 1 : n \in 0 .. Len(f.keys)
    BY <1>2
  <2>2. \A n \in 0 .. Len(f.keys) - 1, cut \in Cuts :
           Append(SubSeq(f.keys, 1, n), cut) \in Seq(Entry)
    BY <1>3, <2>1, DeploymentAssumption
  <2>3. ASSUME NEW h \in Heads(f) PROVE h \in Seq(Entry)
    <3>1. \/ \E n \in 0 .. Len(f.keys) : h = SubSeq(f.keys, 1, n)
          \/ \E n \in 0 .. Len(f.keys) - 1, cut \in Cuts : h = Append(SubSeq(f.keys, 1, n), cut)
      BY DEF Heads
    <3> QED
      BY <1>3, <2>2, <3>1
  <2> QED
    BY <2>3
<1>5. Tails(g) \subseteq Seq(Entry)
  <2>1. ASSUME NEW n \in 1 .. Len(g.keys) + 1
        PROVE  SubSeq(g.keys, n, Len(g.keys)) \in Seq(Entry)
    BY <1>1, <1>2, <2>1
  <2> QED
    BY <2>1 DEF Tails
<1>6. PICK b \in {FALSE, f.base, g.base}, h \in Heads(f), t \in Tails(g) :
        r = [base |-> b, keys |-> h \o t]
  BY DEF Torn
<1>7. h \o t \in Seq(Entry) /\ b \in BOOLEAN
  <2>1. h \in Seq(Entry) /\ t \in Seq(Entry)
    BY <1>4, <1>5
  <2>2. b = FALSE \/ b = f.base \/ b = g.base
    OBVIOUS
  <2>3. b \in BOOLEAN
    BY <1>1, <2>2
  <2>4. h \o t \in Seq(Entry)
    BY <2>1
  <2> QED
    BY <2>3, <2>4
<1>8. Len(r.keys) <= Len(KeyNames)
  BY DEF Torn
<1> QED
  BY <1>6, <1>7, <1>8 DEF File, Named

\* The first file has a name for each of its entries.
LEMMA InitialNamed == InitialKeys \in Seq(Entry) /\ Named(InitialKeys)
  BY DeploymentAssumption DEF Named

-----------------------------------------------------------------------------
(* The type invariant                                                      *)

\* Every file has a name for each of its entries.
FilesNamed ==
    /\ file # None => Named(file.keys)
    /\ \A e \in Editors : Named(data[e].keys)

\* A server that records has the id and a row with a use.
RecordingsWhole ==
    \A s \in Servers : pc[s] = "record" => at[s] # None /\ row[s] \in Row \ {Fresh}

WellTyped == TypeOK /\ FilesNamed /\ RecordingsWhole

LEMMA TruncatedNamed == Truncated \in File /\ Named(Truncated.keys)
<1>1. Len(KeyNames) \in Nat /\ Len(<<>>) = 0 /\ <<>> \in Seq(Entry)
  BY DeploymentAssumption
<1> QED
  BY <1>1 DEF Truncated, File, Named

LEMMA InitTyped == Init => WellTyped
<1> SUFFICES ASSUME Init PROVE WellTyped
  OBVIOUS
<1> USE DEF Init
<1>1. Truncated \in File /\ Named(Truncated.keys)
  BY TruncatedNamed
<1>2. file \in File /\ Named(file.keys)
  BY InitialNamed, DeploymentAssumption DEF File
<1>3. FileTyped
  BY <1>1, <1>2 DEF FileTyped
<1>4. ServersTyped
  BY DEF ServersTyped, NoKeys
<1>5. TypeOK
  BY <1>3, <1>4 DEF TypeOK
<1> QED
  BY <1>1, <1>2, <1>5 DEF WellTyped, FilesNamed, RecordingsWhole

\* No server is an editor.
LEMMA Apart == \A s \in Servers : s \notin Editors
  BY DeploymentAssumption

\* The keys a server starts with come from the file or from the environment.
LEMMA AcceptedNamed ==
    ASSUME WellTyped, NEW keys \in Accepted
    PROVE  keys \in Seq(Entry) /\ Named(keys)
<1>1. CASE file # None /\ keys = file.keys
  BY <1>1 DEF WellTyped, TypeOK, FileTyped, File, FilesNamed
<1>2. CASE keys \in EnvKeys
  BY <1>2, DeploymentAssumption DEF Named
<1> QED
  BY <1>1, <1>2 DEF Accepted

LEMMA LoadTyped ==
    ASSUME WellTyped, NEW s \in Servers, Load(s)
    PROVE  WellTyped'
<1> USE DEF WellTyped, TypeOK, ServersTyped, FilesNamed, RecordingsWhole, server
<1>1. starts' \in Nat /\ FileTyped' /\ FilesNamed' /\ store' = store
  <2>1. strayed' \in BOOLEAN
    BY DEF Load, FileTyped
  <2>2. /\ starts' = starts + 1
        /\ UNCHANGED <<backend, file, store, data, touched, edited, removed>>
    BY DEF Load
  <2>3. FileTyped'
    BY <2>1, <2>2 DEF FileTyped
  <2> QED
    BY <2>2, <2>3
<1>2. CASE UNCHANGED <<pc, server, unseen, strayed>>
  BY <1>1, <1>2 DEF Load
<1>3. CASE ~ UNCHANGED <<pc, server, unseen, strayed>>
  <2>0. PICK keys \in Accepted :
          /\ definitions' = [definitions EXCEPT ![s] = Definitions(keys)]
          /\ missing' = [missing EXCEPT ![s] = DOMAIN Definitions(keys)]
          /\ unseen' = [unseen EXCEPT ![s] = {k \in missing'[s] : store[k] = None}]
          /\ Goto(s, "initialize")
          /\ UNCHANGED <<at, row>>
    BY <1>3 DEF Load
  <2> DEFINE d == Definitions(keys)
  <2>1. keys \in Seq(Entry) /\ Named(keys)
    BY AcceptedNamed
  <2>2. DOMAIN d \subseteq Ids /\ d \in [DOMAIN d -> Values]
    BY <2>1, DefinitionsTyped
  <2>3. /\ pc[s] = "down"
        /\ definitions' = [definitions EXCEPT ![s] = d]
        /\ missing' = [missing EXCEPT ![s] = DOMAIN d]
        /\ unseen' = [unseen EXCEPT ![s] = {k \in missing'[s] : store[k] = None}]
        /\ pc' = [pc EXCEPT ![s] = "initialize"]
        /\ UNCHANGED <<at, row>>
    BY <2>0 DEF Load, Goto
  <2> HIDE DEF d
  <2>4. /\ DOMAIN definitions' = Servers
        /\ \A r \in Servers : /\ DOMAIN definitions'[r] \subseteq Ids
                              /\ definitions'[r] \in [DOMAIN definitions'[r] -> Values]
    BY <2>2, <2>3
  <2>5. missing' \in [Servers -> SUBSET Ids] /\ unseen' \in [Servers -> SUBSET Ids]
    BY <2>2, <2>3
  <2>6. \A r \in Servers : /\ at'[r] # None => pc'[r] \in {"initialize", "record"}
                           /\ row'[r] # None <=> pc'[r] = "record"
                           /\ pc'[r] = "record" => at'[r] # None /\ row'[r] \in Row \ {Fresh}
    BY <2>3
  <2>7. at' \in [Servers -> Ids \union {None}] /\ row' \in [Servers -> Row \union {None}]
    BY <2>3
  <2>8. pc' \in [Servers \union Editors ->
                  {"down", "initialize", "up", "record", "open", "write", "done", "killed"}]
    BY <2>3
  <2>9. ServersTyped'
    BY <1>1, <2>4, <2>5, <2>6, <2>7
  <2> QED
    BY <1>1, <2>6, <2>8, <2>9
<1> QED
  BY <1>2, <1>3

LEMMA ServerTyped ==
    ASSUME WellTyped, NEW s \in Servers,
           InsertRows(s) \/ Exists(s) \/ SetRow(s) \/ Up(s)
             \/ GetState(s) \/ UpsertState(s) \/ Exit(s)
    PROVE  WellTyped'
<1> USE DEF WellTyped, TypeOK, ServersTyped, FilesNamed, RecordingsWhole, server, Goto
<1>1. FileTyped' /\ FilesNamed' /\ starts' = starts
  BY DEF InsertRows, Exists, SetRow, Up, GetState, UpsertState, Exit, FileTyped, history
<1>2. Fresh \in Row /\ None \notin Ids /\ None \notin Row
  BY DeploymentAssumption DEF Fresh, Row
<1>3. CASE InsertRows(s)
  BY <1>1, <1>2, <1>3 DEF InsertRows
<1>4. CASE Exists(s)
  <2>1. PICK k \in missing[s] :
          \/ missing' = [missing EXCEPT ![s] = @ \ {k}] /\ UNCHANGED at
          \/ at' = [at EXCEPT ![s] = k] /\ UNCHANGED missing
    BY <1>4 DEF Exists
  <2>2. k \in Ids /\ pc[s] = "initialize"
    BY <1>4 DEF Exists
  <2>3. UNCHANGED <<store, pc, definitions, row, unseen>>
    BY <1>4 DEF Exists
  <2>4. missing' \in [Servers -> SUBSET Ids] /\ at' \in [Servers -> Ids \union {None}]
    BY <2>1, <2>2
  <2>5. \A t \in Servers : t # s => at'[t] = at[t]
    BY <2>1
  <2> QED
    BY <1>1, <2>2, <2>3, <2>4, <2>5
<1>5. CASE SetRow(s)
  BY <1>1, <1>2, <1>5 DEF SetRow
<1>6. CASE Up(s)
  BY <1>1, <1>2, <1>6 DEF Up
<1>7. CASE GetState(s)
  <2>1. PICK k \in DOMAIN definitions[s] :
          /\ store[k] # None
          /\ at' = [at EXCEPT ![s] = k]
          /\ row' = [row EXCEPT ![s] = [uses_of |-> store[k].uses_of \union {definitions[s][k]}]]
    BY <1>7 DEF GetState
  <2> DEFINE r == [uses_of |-> store[k].uses_of \union {definitions[s][k]}]
  <2>2. k \in Ids /\ store[k] \in Row /\ definitions[s][k] \in Values
    BY <2>1
  <2>3. r \in Row \ {Fresh}
    <3>1. r \in Row
      BY <2>2 DEF Row
    <3>2. r.uses_of # Fresh.uses_of
      BY DEF Fresh
    <3> QED
      BY <3>1, <3>2
  <2>4. row' = [row EXCEPT ![s] = r]
    BY <2>1
  <2> HIDE DEF r
  <2>5. pc[s] = "up" /\ pc' = [pc EXCEPT ![s] = "record"]
        /\ UNCHANGED <<store, definitions, missing, unseen>>
    BY <1>7 DEF GetState
  <2>6. \A t \in Servers : /\ at'[t] # None => pc'[t] \in {"initialize", "record"}
                           /\ row'[t] # None <=> pc'[t] = "record"
                           /\ pc'[t] = "record" => at'[t] # None /\ row'[t] \in Row \ {Fresh}
    <3> TAKE t \in Servers
    <3>1. CASE t = s
      <4>1. pc'[t] = "record" /\ at'[t] = k /\ row'[t] = r
        BY <2>1, <2>4, <2>5, <3>1
      <4> QED
        BY <1>2, <2>2, <2>3, <4>1
    <3>2. CASE t # s
      <4>1. pc'[t] = pc[t] /\ at'[t] = at[t] /\ row'[t] = row[t]
        BY <2>1, <2>4, <2>5, <3>2
      <4> QED
        BY <4>1
    <3> QED
      BY <3>1, <3>2
  <2>7. /\ at' \in [Servers -> Ids \union {None}]
        /\ row' \in [Servers -> Row \union {None}]
        /\ pc' \in [Servers \union Editors ->
                     {"down", "initialize", "up", "record", "open", "write", "done", "killed"}]
    <3>1. at' \in [Servers -> Ids \union {None}]
      BY <2>1, <2>2
    <3>2. row' \in [Servers -> Row \union {None}]
      BY <2>3, <2>4
    <3> QED
      BY <2>5, <3>1, <3>2
  <2> QED
    BY <1>1, <2>5, <2>6, <2>7
<1>8. CASE UpsertState(s)
  BY <1>1, <1>2, <1>8 DEF UpsertState
<1>9. CASE Exit(s)
  <2>1. DOMAIN NoKeys \subseteq Ids /\ NoKeys \in [DOMAIN NoKeys -> Values]
    BY DEF NoKeys
  <2> QED
    BY <1>1, <1>2, <1>9, <2>1 DEF Exit
<1> QED
  BY <1>3, <1>4, <1>5, <1>6, <1>7, <1>8, <1>9

LEMMA EditorTyped ==
    ASSUME WellTyped, NEW e \in Editors,
           add_key(e) \/ remove_key(e) \/ Open(e) \/ Flush(e) \/ Write(e) \/ Killed(e)
    PROVE  WellTyped'
<1> USE DEF WellTyped, TypeOK, FileTyped
<1>1. UNCHANGED <<store, server, starts, unseen, backend>>
  BY DEF add_key, remove_key, Open, Flush, Write, Killed, Edited
<1>2. \A s \in Servers : pc'[s] = pc[s]
  BY Apart DEF add_key, remove_key, Open, Flush, Write, Killed, Edited, Goto
<1>3. ServersTyped' /\ RecordingsWhole'
  BY <1>1, <1>2 DEF ServersTyped, RecordingsWhole, server
<1>4. pc' \in [Servers \union Editors ->
                {"down", "initialize", "up", "record", "open", "write", "done", "killed"}]
  BY DEF add_key, remove_key, Open, Flush, Write, Killed, Edited, Goto
<1>5. touched' \in SUBSET Editors
  BY DEF add_key, remove_key, Open, Flush, Write, Killed, Edited, Touch, Writing
<1>6. ASSUME NEW keys, keys \in Seq(Entry), Named(keys), Edited(e, keys), file # None,
             removed' \in BOOLEAN, strayed' \in BOOLEAN
      PROVE  FileTyped' /\ FilesNamed'
  <2> DEFINE f == [file EXCEPT !.keys = keys]
  <2>1. f \in File /\ f.keys = keys
    BY <1>6 DEF File
  <2> HIDE DEF f
  <2>2. data' = [data EXCEPT ![e] = f] /\ file' = file /\ backend' = backend
    BY <1>6 DEF Edited, f
  <2>3. edited' \in SUBSET File
    BY <1>6, <2>1 DEF Edited, f
  <2> QED
    BY <1>5, <1>6, <2>1, <2>2, <2>3 DEF FilesNamed
<1>7. CASE add_key(e)
  <2>1. PICK a \in Additions : /\ Edited(e, Append(file.keys, a)) /\ UNCHANGED removed
                               /\ file # None /\ Len(file.keys) < Len(KeyNames)
    BY <1>7 DEF add_key
  <2>2. file.keys \in Seq(Entry)
    BY <2>1 DEF File
  <2>3. strayed' = strayed
    BY <2>1 DEF Edited
  <2> QED
    BY <1>1, <1>3, <1>4, <1>6, <2>1, <2>2, <2>3, AdditionNamed
<1>8. CASE remove_key(e)
  <2>1. PICK k \in Removals : Edited(e, Others(file.keys, k)) /\ removed' = TRUE /\ file # None
    BY <1>8 DEF remove_key
  <2>2. file.keys \in Seq(Entry) /\ Named(file.keys)
    BY <2>1 DEF File, FilesNamed
  <2>3. strayed' = strayed
    BY <1>8 DEF remove_key
  <2> QED
    BY <1>1, <1>3, <1>4, <1>6, <2>1, <2>2, <2>3, OthersAre, OthersNamed
<1>9. ASSUME UNCHANGED <<data, edited, removed, strayed>>,
             file' # None => file' \in File /\ Named(file'.keys)
      PROVE  WellTyped'
  BY <1>1, <1>3, <1>4, <1>5, <1>9 DEF FilesNamed
<1>10. CASE Open(e)
  BY <1>9, <1>10, TruncatedNamed DEF Open, history
<1>11. ASSUME NEW r \in HalfWritten(e), r # None PROVE r \in File /\ Named(r.keys)
  BY <1>11, TornAre, TruncatedNamed DEF HalfWritten
<1>12. CASE Flush(e)
  BY <1>9, <1>11, <1>12 DEF Flush, history
<1>13. CASE Write(e)
  <2>1. file' = data[e] \/ file' \in HalfWritten(e)
    BY <1>13 DEF Write
  <2> QED
    BY <1>9, <1>11, <1>13, <2>1 DEF Write, history, FilesNamed
<1>14. CASE Killed(e)
  BY <1>9, <1>14 DEF Killed, history, FilesNamed
<1> QED
  BY <1>7, <1>8, <1>10, <1>12, <1>13, <1>14

LEMMA StepTyped == WellTyped /\ [Next]_vars => WellTyped'
<1> SUFFICES ASSUME WellTyped, [Next]_vars PROVE WellTyped'
  OBVIOUS
<1>1. CASE UNCHANGED vars
  BY <1>1 DEF vars, server, history, WellTyped, TypeOK, FileTyped, ServersTyped, FilesNamed, RecordingsWhole
<1>2. CASE Next
  BY <1>2, LoadTyped, ServerTyped, EditorTyped DEF Next
<1> QED
  BY <1>1, <1>2

\* Every variable keeps its type, whatever edits, crashes and starts there are; of
\* a configuration of any length every name is an id and every value a key.
THEOREM TypeCorrect == Spec => []TypeOK
<1>1. WellTyped => TypeOK
  BY DEF WellTyped
<1> QED
  BY InitTyped, StepTyped, <1>1, PTL DEF Spec

-----------------------------------------------------------------------------
(* The rows                                                                *)

\* While a server initializes, each of its keys has a row or is on its list; it
\* makes only rows that were not there when it began, and in two calls only on
\* Redis.  Then each of its keys has one.
Sound(s) ==
    /\ pc[s] = "initialize" =>
          /\ \A k \in DOMAIN definitions[s] : store[k] # None \/ k \in missing[s]
          /\ \A k \in missing[s] : store[k] = None => k \in unseen[s]
          /\ at[s] # None => backend = "redis" /\ at[s] \in unseen[s]
    /\ pc[s] \in {"up", "record"} => \A k \in DOMAIN definitions[s] : store[k] # None

RowsInvariant == WellTyped /\ \A s \in Servers : Sound(s)

\* No step takes a row away.
LEMMA RowsNeverGo ==
    ASSUME WellTyped, [Next]_vars
    PROVE  \A k \in Ids : store[k] # None => store'[k] # None
<1> USE DEF WellTyped, TypeOK
<1>1. Fresh # None
  BY DeploymentAssumption DEF Fresh, Row
<1>2. CASE store' = store
  BY <1>2
<1>3. ASSUME NEW s \in Servers, InsertRows(s)
      PROVE  \A k \in Ids : store[k] # None => store'[k] # None
  BY <1>3 DEF InsertRows
<1>4. ASSUME NEW s \in Servers, SetRow(s)
      PROVE  \A k \in Ids : store[k] # None => store'[k] # None
  BY <1>1, <1>4 DEF SetRow
<1>5. ASSUME NEW s \in Servers, UpsertState(s)
      PROVE  \A k \in Ids : store[k] # None => store'[k] # None
  <2>1. row[s] # None
    BY <1>5 DEF UpsertState, FileTyped, ServersTyped
  <2> QED
    BY <1>5, <2>1 DEF UpsertState
<1>6. ASSUME Next PROVE store' = store \/ \E s \in Servers :
                          InsertRows(s) \/ SetRow(s) \/ UpsertState(s)
  BY <1>6 DEF Next, Load, Exists, Up, GetState, Exit, add_key, remove_key, Open, Flush, Write,
     Killed, Edited
<1>7. CASE UNCHANGED vars
  BY <1>2, <1>7 DEF vars
<1> QED
  BY <1>2, <1>3, <1>4, <1>5, <1>6, <1>7

\* Of another server, a step changes at most the rows.
ServerState(s) == <<pc[s], definitions[s], missing[s], at[s], unseen[s]>>

LEMMA OthersUndisturbed ==
    ASSUME RowsInvariant, NEW r \in Servers, ServerState(r)' = ServerState(r),
           backend' = backend, \A k \in Ids : store[k] # None => store'[k] # None
    PROVE  Sound(r)'
<1>1. DOMAIN definitions[r] \subseteq Ids /\ missing[r] \subseteq Ids
  BY DEF RowsInvariant, WellTyped, TypeOK, ServersTyped
<1> QED
  BY <1>1 DEF ServerState, RowsInvariant, Sound

LEMMA ServerSound ==
    ASSUME RowsInvariant, [Next]_vars, NEW s \in Servers,
           Load(s) \/ InsertRows(s) \/ Exists(s) \/ SetRow(s) \/ Up(s)
             \/ GetState(s) \/ UpsertState(s) \/ Exit(s)
    PROVE  Sound(s)'
<1> USE DEF RowsInvariant, WellTyped, TypeOK, ServersTyped, Sound, Goto, server
<1>1. Fresh # None
  BY DeploymentAssumption DEF Fresh, Row
<1>2. \A k \in Ids : store[k] # None => store'[k] # None
  BY RowsNeverGo
<1>3. CASE Load(s)
  <2>1. CASE UNCHANGED <<pc, server, unseen, strayed>>
    BY <1>3, <2>1 DEF Load
  <2>2. CASE ~ UNCHANGED <<pc, server, unseen, strayed>>
    <3>0. PICK keys \in Accepted :
            /\ definitions' = [definitions EXCEPT ![s] = Definitions(keys)]
            /\ missing' = [missing EXCEPT ![s] = DOMAIN Definitions(keys)]
            /\ unseen' = [unseen EXCEPT ![s] = {k \in missing'[s] : store[k] = None}]
            /\ Goto(s, "initialize")
            /\ UNCHANGED <<at, row>>
      BY <1>3, <2>2 DEF Load
    <3> DEFINE d == Definitions(keys)
    <3>1. /\ pc[s] = "down" /\ pc'[s] = "initialize" /\ definitions'[s] = d
          /\ missing'[s] = DOMAIN d
          /\ unseen'[s] = {k \in missing'[s] : store[k] = None}
          /\ at' = at /\ store' = store
      BY <1>3, <3>0 DEF Load
    <3> HIDE DEF d
    <3>2. at'[s] = None
      BY <3>1
    <3> QED
      BY <3>1, <3>2
  <2> QED
    BY <2>1, <2>2
<1>4. CASE InsertRows(s)
  <2>1. /\ \A k \in missing[s] : store'[k] # None
        /\ missing'[s] = {} /\ pc[s] = "initialize"
        /\ UNCHANGED <<pc, definitions, at, unseen, backend>>
    BY <1>1, <1>4 DEF InsertRows
  <2> QED
    BY <1>2, <2>1
<1>5. CASE Exists(s)
  <2>1. PICK k \in missing[s] :
          \/ store[k] # None /\ missing'[s] = missing[s] \ {k} /\ UNCHANGED at
          \/ store[k] = None /\ at'[s] = k /\ UNCHANGED missing
    BY <1>5 DEF Exists
  <2>2. /\ backend = "redis" /\ pc[s] = "initialize" /\ at[s] = None
        /\ UNCHANGED <<pc, store, definitions, unseen, backend>>
    BY <1>5 DEF Exists
  <2> QED
    BY <2>1, <2>2
<1>6. CASE SetRow(s)
  <2>1. /\ store'[at[s]] # None /\ missing'[s] = missing[s] \ {at[s]} /\ at'[s] = None
        /\ pc[s] = "initialize" /\ UNCHANGED <<pc, definitions, unseen, backend>>
    BY <1>1, <1>6 DEF SetRow
  <2> QED
    BY <1>2, <2>1
<1>7. CASE Up(s)
  BY <1>7 DEF Up
<1>8. CASE GetState(s)
  <2>1. /\ pc[s] = "up" /\ pc'[s] = "record"
        /\ definitions'[s] = definitions[s] /\ store' = store
    BY <1>8 DEF GetState
  <2> QED
    BY <2>1
<1>9. CASE UpsertState(s)
  <2>1. pc[s] = "record" /\ pc'[s] = "up" /\ definitions'[s] = definitions[s]
    BY <1>9 DEF UpsertState
  <2> QED
    BY <1>2, <2>1
<1>10. CASE Exit(s)
  <2>1. pc'[s] = "down"
    BY <1>10 DEF Exit
  <2> QED
    BY <2>1
<1> QED
  BY <1>3, <1>4, <1>5, <1>6, <1>7, <1>8, <1>9, <1>10

LEMMA RowsInit == Init => RowsInvariant
<1> SUFFICES ASSUME Init PROVE \A s \in Servers : Sound(s)
  BY InitTyped DEF RowsInvariant
<1> QED
  BY DEF Init, Sound

LEMMA RowsStep == RowsInvariant /\ [Next]_vars => RowsInvariant'
<1> SUFFICES ASSUME RowsInvariant, [Next]_vars PROVE RowsInvariant'
  OBVIOUS
<1>1. WellTyped' /\ WellTyped
  BY StepTyped DEF RowsInvariant
<1>2. \A k \in Ids : store[k] # None => store'[k] # None
  BY <1>1, RowsNeverGo
<1>3. backend' = backend
  BY DEF vars, Next, Load, InsertRows, Exists, SetRow, Up, GetState, UpsertState, Exit,
     add_key, remove_key, Open, Flush, Write, Killed, Edited
<1>4. CASE UNCHANGED vars
  BY <1>1, <1>2, <1>3, <1>4, OthersUndisturbed DEF vars, server, ServerState, RowsInvariant
<1>5. ASSUME NEW s \in Servers,
             Load(s) \/ InsertRows(s) \/ Exists(s) \/ SetRow(s) \/ Up(s)
               \/ GetState(s) \/ UpsertState(s) \/ Exit(s)
      PROVE  \A r \in Servers : Sound(r)'
  <2>1. Sound(s)'
    BY <1>5, ServerSound
  <2>2. ASSUME NEW r \in Servers, r # s PROVE ServerState(r)' = ServerState(r)
    BY <1>1, <1>5, <2>2 DEF WellTyped, TypeOK, ServersTyped, Goto, server, ServerState, Load,
       InsertRows, Exists, SetRow, Up, GetState, UpsertState, Exit
  <2> QED
    BY <1>2, <1>3, <2>1, <2>2, OthersUndisturbed
<1>6. ASSUME NEW e \in Editors,
             add_key(e) \/ remove_key(e) \/ Open(e) \/ Flush(e) \/ Write(e) \/ Killed(e)
      PROVE  \A r \in Servers : Sound(r)'
  <2>1. ASSUME NEW r \in Servers PROVE ServerState(r)' = ServerState(r)
    BY <1>1, <1>6, Apart DEF WellTyped, TypeOK, server, ServerState, Goto, add_key, remove_key,
       Open, Flush, Write, Killed, Edited
  <2> QED
    BY <1>2, <1>3, <2>1, OthersUndisturbed
<1>7. CASE Next
  BY <1>1, <1>5, <1>6, <1>7 DEF Next, RowsInvariant
<1> QED
  BY <1>4, <1>7

\* A server that serves finds the row of each of its keys, with any number of
\* servers, configurations and crashes.
THEOREM RowsThere == Spec => []ServersHaveRows
<1>1. RowsInvariant => ServersHaveRows
  BY DEF RowsInvariant, Sound, ServersHaveRows
<1> QED
  BY RowsInit, RowsStep, <1>1, PTL DEF Spec

\* Only what a server sets on Redis takes a use back: what it records has one, and
\* what SQLite inserts replaces nothing.
LEMMA UsedStep ==
    ASSUME RowsInvariant, [Next]_vars, NEW k \in Ids, Used(store, k), ~ Used(store', k)
    PROVE  backend = "redis" /\ \E s \in Servers : at[s] = k /\ k \in unseen[s]
<1> USE DEF RowsInvariant, WellTyped, TypeOK, Used
<1>1. PICK s \in Servers : InsertRows(s) \/ SetRow(s) \/ UpsertState(s)
  BY DEF vars, Next, Load, Exists, Up, GetState, Exit, add_key, remove_key, Open, Flush, Write,
     Killed, Edited
<1>2. ~ InsertRows(s)
  BY DEF InsertRows
<1>3. CASE UpsertState(s)
  <2>1. row[s] \in Row \ {Fresh} /\ None \notin Row
    BY <1>3, DeploymentAssumption DEF UpsertState, RecordingsWhole
  <2>2. store' = [store EXCEPT ![at[s]] = row[s]]
    BY <1>3 DEF UpsertState
  <2> QED
    BY <2>1, <2>2
<1>4. CASE SetRow(s)
  <2>1. at[s] = k /\ pc[s] = "initialize" /\ at[s] # None
    BY <1>4 DEF SetRow
  <2> QED
    BY <2>1 DEF Sound
<1> QED
  BY <1>1, <1>2, <1>3, <1>4

\* What has been recorded of a key survives every start, crash and edit, but for two
\* first starts that overlap on Redis.
THEOREM UsesSurvive == Spec => UsedRowsStay
<1>1. RowsInvariant /\ [Next]_vars
        => [\A k \in Ids : Used(store, k) /\ ~ Used(store', k) =>
              /\ backend = "redis"
              /\ \E s \in Servers : at[s] = k /\ k \in unseen[s]]_vars
  BY UsedStep
<1> QED
  BY RowsInit, RowsStep, <1>1, PTL DEF Spec, UsedRowsStay

-----------------------------------------------------------------------------
(* Names                                                                   *)

\* The first entries, and additions behind them.
Grown(keys) ==
    /\ Len(keys) >= Len(InitialKeys)
    /\ \A i \in DOMAIN keys : IF i <= Len(InitialKeys) THEN keys[i] = InitialKeys[i]
                                                       ELSE keys[i] \in Additions

LEMMA GrownOwned ==
    ASSUME NEW keys \in Seq(Entry), Grown(keys),
           NEW k \in DOMAIN Definitions(keys)
    PROVE  Definitions(keys)[k] \in Owners(k)
<1> DEFINE first == InitialKeys
<1>1. first \in Seq(Entry)
  BY DeploymentAssumption
<1>2. PICK i \in DOMAIN keys :
        /\ NameOf(keys, i) = k
        /\ \A j \in DOMAIN keys : NameOf(keys, j) = k => j <= i
        /\ Definitions(keys)[k] = keys[i].value
  BY DefinitionsAre
<1>3. /\ DOMAIN Definitions(first) = {NameOf(first, j) : j \in DOMAIN first}
      /\ \A n \in DOMAIN Definitions(first) : \E j \in DOMAIN first :
            /\ NameOf(first, j) = n
            /\ \A h \in DOMAIN first : NameOf(first, h) = n => h <= j
            /\ Definitions(first)[n] = first[j].value
  BY <1>1, DefinitionsAre
<1>4. DOMAIN first = 1 .. Len(first) /\ DOMAIN keys = 1 .. Len(keys)
      /\ Len(first) \in Nat /\ Len(keys) \in Nat
  BY <1>1
<1>5. CASE i <= Len(first)
  <2>1. i \in DOMAIN first /\ keys[i] = first[i]
    BY <1>2, <1>4, <1>5 DEF Grown
  <2>2. NameOf(first, i) = k
    BY <1>2, <2>1 DEF NameOf
  <2>3. PICK j \in DOMAIN first :
          /\ NameOf(first, j) = k
          /\ \A h \in DOMAIN first : NameOf(first, h) = k => h <= j
          /\ Definitions(first)[k] = first[j].value
    BY <1>3, <2>1, <2>2
  <2>4. j \in DOMAIN keys /\ keys[j] = first[j]
    BY <1>4, <2>3 DEF Grown
  <2>5. j <= i
    BY <1>2, <2>3, <2>4 DEF NameOf
  <2>6. i <= j
    BY <2>1, <2>2, <2>3
  <2>7. i = j
    BY <1>4, <2>1, <2>3, <2>5, <2>6
  <2>8. k \in DOMAIN Definitions(first)
    BY <1>3, <2>1, <2>2
  <2> QED
    BY <1>2, <2>1, <2>3, <2>7, <2>8 DEF Owners
<1>6. CASE ~ (i <= Len(first))
  <2>1. keys[i] \in Additions
    BY <1>2, <1>6 DEF Grown
  <2>2. keys[i].id \in Ids /\ keys[i].id # None
    BY <2>1, DeploymentAssumption
  <2>3. k = keys[i].id
    BY <1>2, <2>2 DEF NameOf
  <2> QED
    BY <1>2, <2>1, <2>3 DEF Owners
<1> QED
  BY <1>5, <1>6

\* An addition keeps the file grown.
LEMMA AdditionGrown ==
    ASSUME NEW keys \in Seq(Entry), Grown(keys), NEW a \in Additions
    PROVE  Grown(Append(keys, a))
<1>1. a \in Entry
  BY DeploymentAssumption DEF Entry
<1>2. Len(InitialKeys) \in Nat
  BY DeploymentAssumption
<1>3. Append(keys, a) \in Seq(Entry) /\ Len(Append(keys, a)) = Len(keys) + 1
  BY <1>1
<1>4. ASSUME NEW i \in 1 .. Len(keys) + 1
      PROVE  IF i <= Len(InitialKeys) THEN Append(keys, a)[i] = InitialKeys[i]
                                      ELSE Append(keys, a)[i] \in Additions
  <2>1. CASE i <= Len(keys)
    BY <1>1, <2>1 DEF Grown
  <2>2. CASE i = Len(keys) + 1
    <3>1. Append(keys, a)[i] = a
      BY <1>1, <2>2
    <3>2. ~ (i <= Len(InitialKeys))
      BY <1>2, <2>2 DEF Grown
    <3> QED
      BY <3>1, <3>2
  <2> QED
    BY <2>1, <2>2
<1> QED
  BY <1>2, <1>3, <1>4 DEF Grown

\* Only the use of keys is accounted for that have had the name.
Pure(r, k) == r # None => r.uses_of \subseteq Owners(k)

FilesGrown == \A f \in edited : Grown(f.keys)

ServersAgree ==
    \A s \in Servers :
        /\ \A k \in DOMAIN definitions[s] : definitions[s][k] \in Owners(k)
        /\ Pure(row[s], at[s])

RowsPure == \A k \in Ids : Pure(store[k], k)

NamesInvariant ==
    /\ WellTyped
    /\ ~ removed => FilesGrown
    /\ ~ removed /\ ~ strayed => ServersAgree /\ RowsPure

LEMMA NamesInit == Init => NamesInvariant
<1> SUFFICES ASSUME Init PROVE FilesGrown /\ ServersAgree /\ RowsPure
  BY InitTyped DEF NamesInvariant
<1>1. Grown(InitialKeys)
  BY DeploymentAssumption DEF Grown
<1> QED
  BY <1>1 DEF Init, FilesGrown, ServersAgree, RowsPure, Pure, NoKeys

LEMMA ServerNames ==
    ASSUME WellTyped, FilesGrown, ServersAgree, RowsPure, ~ strayed',
           NEW s \in Servers,
           Load(s) \/ InsertRows(s) \/ Exists(s) \/ SetRow(s) \/ Up(s)
             \/ GetState(s) \/ UpsertState(s) \/ Exit(s)
    PROVE  ServersAgree' /\ RowsPure'
<1> USE DEF WellTyped, TypeOK, ServersTyped, server
<1>2. \A k : Pure(None, k) /\ Pure(Fresh, k)
  BY DEF Pure, Fresh
<1>3. CASE Load(s)
  <2>1. RowsPure' /\ UNCHANGED <<at, row>>
    BY <1>3 DEF Load, RowsPure
  <2>2. CASE UNCHANGED definitions
    BY <2>1, <2>2 DEF ServersAgree
  <2>3. ASSUME NEW keys \in Accepted,
               definitions' = [definitions EXCEPT ![s] = Definitions(keys)],
               strayed' = (strayed \/ \A f \in edited : f.keys # keys)
        PROVE  ServersAgree'
    <3>1. Grown(keys) /\ keys \in Seq(Entry)
      <4>1. PICK f \in edited : f.keys = keys
        BY <2>3
      <4> QED
        BY <4>1, AcceptedNamed DEF FilesGrown
    <3>2. \A k \in DOMAIN Definitions(keys) : Definitions(keys)[k] \in Owners(k)
      BY <3>1, GrownOwned
    <3> QED
      BY <2>1, <2>3, <3>2 DEF ServersAgree
  <2> QED
    BY <1>3, <2>1, <2>2, <2>3 DEF Load
<1>4. CASE InsertRows(s)
  BY <1>2, <1>4 DEF InsertRows, ServersAgree, RowsPure
<1>5. CASE Exists(s)
  <2>1. UNCHANGED <<store, definitions, row>> /\ row[s] = None
    BY <1>5 DEF Exists
  <2>2. \A r \in Servers : r # s => at'[r] = at[r]
    BY <1>5 DEF Exists
  <2> QED
    BY <1>2, <2>1, <2>2 DEF ServersAgree, RowsPure
<1>6. CASE SetRow(s)
  <2>1. row[s] = None /\ UNCHANGED <<definitions, row>>
    BY <1>6 DEF SetRow
  <2>2. \A r \in Servers : r # s => at'[r] = at[r]
    BY <1>6 DEF SetRow
  <2>3. RowsPure'
    BY <1>2, <1>6 DEF SetRow, RowsPure
  <2> QED
    BY <1>2, <2>1, <2>2, <2>3 DEF ServersAgree
<1>7. CASE Up(s)
  BY <1>7 DEF Up, ServersAgree, RowsPure
<1>8. CASE GetState(s)
  <2>1. PICK k \in DOMAIN definitions[s] :
          /\ store[k] # None
          /\ at' = [at EXCEPT ![s] = k]
          /\ row' = [row EXCEPT ![s] = [uses_of |-> store[k].uses_of \union {definitions[s][k]}]]
    BY <1>8 DEF GetState
  <2>2. k \in Ids /\ definitions[s][k] \in Owners(k) /\ store[k].uses_of \subseteq Owners(k)
    BY <2>1 DEF ServersAgree, RowsPure, Pure
  <2>3. Pure(row'[s], at'[s])
    BY <2>1, <2>2 DEF Pure
  <2>4. \A r \in Servers : r # s => at'[r] = at[r] /\ row'[r] = row[r]
    BY <2>1
  <2>5. UNCHANGED <<store, definitions>>
    BY <1>8 DEF GetState
  <2> QED
    BY <2>3, <2>4, <2>5 DEF ServersAgree, RowsPure
<1>9. CASE UpsertState(s)
  <2>1. at[s] \in Ids /\ Pure(row[s], at[s])
    BY <1>9 DEF UpsertState, RecordingsWhole, ServersAgree
  <2>2. RowsPure'
    BY <1>9, <2>1 DEF UpsertState, RowsPure
  <2>3. \A r \in Servers : r # s => at'[r] = at[r] /\ row'[r] = row[r]
    BY <1>9 DEF UpsertState
  <2>4. row'[s] = None /\ definitions' = definitions
    BY <1>9 DEF UpsertState
  <2> QED
    BY <1>2, <2>2, <2>3, <2>4 DEF ServersAgree
<1>10. CASE Exit(s)
  <2>1. \A r \in Servers : r # s => /\ at'[r] = at[r] /\ row'[r] = row[r]
                                    /\ definitions'[r] = definitions[r]
    BY <1>10 DEF Exit
  <2>2. row'[s] = None /\ definitions'[s] = NoKeys /\ store' = store
    BY <1>10 DEF Exit
  <2> QED
    BY <1>2, <2>1, <2>2 DEF ServersAgree, RowsPure, NoKeys
<1> QED
  BY <1>3, <1>4, <1>5, <1>6, <1>7, <1>8, <1>9, <1>10

\* An edit of what complete edits have led to leads to a grown file.
LEMMA EditorNames ==
    ASSUME WellTyped, FilesGrown, NEW e \in Editors, ~ removed',
           add_key(e) \/ remove_key(e) \/ Open(e) \/ Flush(e) \/ Write(e) \/ Killed(e)
    PROVE  FilesGrown'
<1> USE DEF WellTyped, TypeOK, FileTyped
<1>1. CASE add_key(e)
  <2>1. PICK a \in Additions : file # None /\ Edited(e, Append(file.keys, a))
    BY <1>1 DEF add_key
  <2> DEFINE f == [file EXCEPT !.keys = Append(file.keys, a)]
  <2>2. file.keys \in Seq(Entry) /\ f.keys = Append(file.keys, a)
    BY <2>1 DEF File
  <2>3. file \in edited => Grown(f.keys)
    BY <2>2, AdditionGrown DEF FilesGrown
  <2>4. edited' = IF file \in edited THEN edited \union {f} ELSE edited
    BY <2>1 DEF Edited
  <2> HIDE DEF f
  <2>5. (edited' = edited) \/ (file \in edited /\ edited' = edited \union {f})
    BY <2>4
  <2> QED
    BY <2>3, <2>5 DEF FilesGrown
<1>2. ~ remove_key(e)
  BY DEF remove_key
<1>3. CASE UNCHANGED edited
  BY <1>3 DEF FilesGrown
<1> QED
  BY <1>1, <1>2, <1>3 DEF Open, Flush, Write, Killed, history

LEMMA NamesStep ==
    ASSUME NamesInvariant, [Next]_vars
    PROVE  NamesInvariant'
<1> USE DEF NamesInvariant
<1>1. WellTyped'
  BY StepTyped
<1>2. (removed => removed') /\ (strayed => strayed')
  <2>1. ASSUME NEW s \in Servers, Load(s) PROVE strayed => strayed'
    BY <2>1 DEF Load
  <2>2. ASSUME NEW s \in Servers,
               InsertRows(s) \/ Exists(s) \/ SetRow(s) \/ Up(s)
                 \/ GetState(s) \/ UpsertState(s) \/ Exit(s)
        PROVE  UNCHANGED <<removed, strayed>>
    BY <2>2 DEF history, InsertRows, Exists, SetRow, Up, GetState, UpsertState, Exit
  <2>3. ASSUME NEW e \in Editors, add_key(e) \/ remove_key(e)
        PROVE  (removed => removed') /\ strayed' = strayed
    BY <2>3 DEF add_key, remove_key, Edited
  <2>4. ASSUME NEW e \in Editors, Open(e) \/ Flush(e) \/ Write(e) \/ Killed(e)
        PROVE  UNCHANGED <<removed, strayed>>
    BY <2>4 DEF history, Open, Flush, Write, Killed
  <2>5. ASSUME NEW s \in Servers, Load(s) PROVE removed' = removed
    BY <2>5 DEF Load
  <2> QED
    BY <2>1, <2>2, <2>3, <2>4, <2>5 DEF Next, vars, history
<1>3. CASE UNCHANGED vars
  BY <1>1, <1>3 DEF vars, server, history, FilesGrown, ServersAgree, RowsPure
<1>4. ASSUME NEW s \in Servers,
             Load(s) \/ InsertRows(s) \/ Exists(s) \/ SetRow(s) \/ Up(s)
               \/ GetState(s) \/ UpsertState(s) \/ Exit(s)
      PROVE  NamesInvariant'
  <2>1. UNCHANGED <<edited, removed>>
    BY <1>4 DEF Load, InsertRows, Exists, SetRow, Up, GetState, UpsertState, Exit, history
  <2>2. FilesGrown => FilesGrown'
    BY <2>1 DEF FilesGrown
  <2> QED
    BY <1>1, <1>2, <1>4, <2>1, <2>2, ServerNames
<1>5. ASSUME NEW e \in Editors,
             add_key(e) \/ remove_key(e) \/ Open(e) \/ Flush(e) \/ Write(e) \/ Killed(e)
      PROVE  NamesInvariant'
  <2>1. UNCHANGED <<store, definitions, at, row>>
    BY <1>5 DEF add_key, remove_key, Open, Flush, Write, Killed, Edited, server
  <2>2. (ServersAgree => ServersAgree') /\ (RowsPure => RowsPure')
    BY <2>1 DEF ServersAgree, RowsPure
  <2> QED
    BY <1>1, <1>2, <1>5, <2>2, EditorNames
<1> QED
  BY <1>3, <1>4, <1>5 DEF Next

\* A row accounts only for keys that have had its name, whatever edits are lost,
\* torn or interrupted, and whichever ids are given, as long as no key is removed
\* and no server has started on other keys than complete edits led to.
THEOREM NamesStay == Spec => []AddingRenamesNothing
<1>1. NamesInvariant /\ [Next]_vars => NamesInvariant'
  BY NamesStep
<1>2. NamesInvariant => AddingRenamesNothing
  BY DEF NamesInvariant, RowsPure, Pure, AddingRenamesNothing
<1> QED
  BY NamesInit, <1>1, <1>2, PTL DEF Spec
=============================================================================
