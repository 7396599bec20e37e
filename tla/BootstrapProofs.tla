--------------------------- MODULE BootstrapProofs ---------------------------
(***************************************************************************)
(* Demo data is stored as a whole and never over a lead, for every number  *)
(* of processes, requests, kills and restarts.                             *)
(***************************************************************************)
EXTENDS Bootstrap, TLAPS

LEMMA TypeInit == Init => TypeOK
BY DEF Init, TypeOK, AllRows, Own, Row, Sessions, Schema, Users, Leads, Business

(* A session's rows are rows.                                              *)
LEMMA RowsAreTyped ==
  ASSUME TypeOK, NEW p \in Processes, NEW t \in Business \cup {Schema, Users}
  PROVE  Own(t) \in AllRows /\ BatchRow(p, t) \in AllRows
BY DEF TypeOK, Own, BatchRow, Row, AllRows

LEMMA TypeStep == TypeOK /\ [Next]_vars => TypeOK'
<1> SUFFICES ASSUME TypeOK, [Next]_vars PROVE TypeOK'
  OBVIOUS
<1>0. Own(Schema) \in AllRows /\ Own(Users) \in AllRows
      /\ \A t \in Business : Own(t) \in AllRows
  BY DEF Own, Row, AllRows
<1> USE DEF TypeOK, Goto, Write, Commit, Rollback, Read, settings, Sessions
<1>1. ASSUME NEW p \in Processes, Prepare(p) \/ Serve(p) PROVE TypeOK'
  <2>1. CASE Start(p)
    <3>1. Present(Leads) \in BOOLEAN
      BY DEF Present
    <3>2. leadAt' \in [Processes -> BOOLEAN]
      BY <2>1, <3>1 DEF Start
    <3> QED BY <2>1, <3>2 DEF Start
  <2>2. CASE CheckSchema(p) BY <2>2 DEF CheckSchema, Prepared
  <2>3. CASE CreateSchema(p) BY <2>3, <1>0 DEF CreateSchema
  <2>4. CASE CommitSchema(p) BY <2>4 DEF CommitSchema, Prepared
  <2>5. CASE Count(p) BY <2>5 DEF Count
  <2>6. CASE Identify(p) BY <2>6 DEF Identify
  <2>7. CASE Enroll(p) BY <2>7, <1>0 DEF Enroll
  <2>8. CASE CommitSeed(p) BY <2>8 DEF CommitSeed
  <2>9. CASE Serve(p) BY <2>9 DEF Serve
  <2>10. CASE Collide(p) BY <2>10 DEF Collide
  <2>11. ASSUME NEW t \in Business, Fill(p, t) PROVE TypeOK'
    BY <2>11, RowsAreTyped DEF Fill
  <2> QED BY <1>1, <2>1, <2>2, <2>3, <2>4, <2>5, <2>6, <2>7, <2>8, <2>9, <2>10, <2>11 DEF Prepare
<1>2. ASSUME NEW p \in Processes, Die(p) PROVE TypeOK'
  BY <1>2, BootstrapAssumption DEF Die
<1>3. ASSUME NEW r \in Requests, Ask(r) \/ Attribute(r) \/ Answer(r) \/ Abort(r) PROVE TypeOK'
  <2>1. CASE Ask(r) BY <2>1 DEF Ask
  <2>2. CASE Identify(r) BY <2>2 DEF Identify
  <2>3. CASE Enroll(r) BY <2>3, <1>0 DEF Enroll
  <2>4. CASE Answer(r) BY <2>4 DEF Answer
  <2>5. CASE Collide(r) BY <2>5 DEF Collide
  <2>6. CASE Abort(r) BY <2>6 DEF Abort
  <2> QED BY <1>3, <2>1, <2>2, <2>3, <2>4, <2>5, <2>6 DEF Attribute
<1>4. ASSUME NEW t \in Business, Store(t) PROVE TypeOK'
  BY <1>4, <1>0 DEF Store
<1>5. CASE UNCHANGED vars
  BY <1>5 DEF vars
<1> QED
  BY <1>1, <1>2, <1>3, <1>4, <1>5 DEF Next

-----------------------------------------------------------------------------
LEMMA InvInit == Init => IInv
<1> SUFFICES ASSUME Init PROVE IInv
  OBVIOUS
<1>1. TypeOK
  BY TypeInit
<1>2. TxInv
  BY DEF Init, TxInv, Sessions
<1>3. SeedInv
  BY DEF Init, SeedInv, Sessions
<1>4. ServesPrepared
  BY BootstrapAssumption DEF Init, ServesPrepared, Sessions, Own, Row
<1> QED
  BY <1>1, <1>2, <1>3, <1>4 DEF IInv

(* Rows are never deleted, and a row that stays leaves its table present.  *)
LEMMA Growing == [Next]_vars => db \subseteq db'
BY DEF Next, Prepare, Attribute, Start, CheckSchema, CreateSchema, CommitSchema, Count, Identify,
       Enroll, Fill, CommitSeed, Serve, Collide, Ask, Answer, Abort, Die, Store, Write, Commit,
       Rollback, Read, vars

LEMMA StaysPresent ==
  ASSUME db \subseteq db', NEW t, Present(t) PROVE Present(t)'
BY DEF Present

(* What a session commits without seeding carries no process's name.       *)
LEMMA WholeKept ==
  ASSUME TypeOK, ServesPrepared, db \subseteq db',
         \A x \in db' \ db : x.by = Nobody
  PROVE  \A x \in db' : x.by \in Processes =>
           {Row(t, x.by, x.start) : t \in Business} \subseteq db'
BY BootstrapAssumption DEF ServesPrepared

LEMMA TxStep == IInv /\ [Next]_vars => TxInv'
<1> SUFFICES ASSUME IInv, [Next]_vars PROVE TxInv'
  OBVIOUS
<1>0. TypeOK' /\ TypeOK /\ TxInv
  BY TypeStep DEF IInv
<1> USE BootstrapAssumption
    DEF TxInv, TypeOK, Goto, Write, Commit, Rollback, Read, settings, Sessions, Batch, BatchRow
<1>1. ASSUME NEW p \in Processes, Prepare(p) \/ Serve(p) PROVE TxInv'
  <2>1. CASE Start(p) BY <1>0, <2>1 DEF Start
  <2>2. CASE CheckSchema(p) BY <1>0, <2>2 DEF CheckSchema, Prepared
  <2>3. CASE CreateSchema(p) BY <1>0, <2>3 DEF CreateSchema
  <2>4. CASE CommitSchema(p) BY <1>0, <2>4 DEF CommitSchema, Prepared
  <2>5. CASE Count(p) BY <1>0, <2>5 DEF Count
  <2>6. CASE Identify(p) BY <1>0, <2>6 DEF Identify
  <2>7. CASE Enroll(p) BY <1>0, <2>7 DEF Enroll
  <2>8. CASE CommitSeed(p) BY <1>0, <2>8 DEF CommitSeed
  <2>9. CASE Serve(p) BY <1>0, <2>9 DEF Serve
  <2>10. CASE Collide(p) BY <1>0, <2>10 DEF Collide
  <2>11. ASSUME NEW t \in Business, Fill(p, t) PROVE TxInv'
    BY <1>0, <2>11 DEF Fill
  <2> QED BY <1>1, <2>1, <2>2, <2>3, <2>4, <2>5, <2>6, <2>7, <2>8, <2>9, <2>10, <2>11 DEF Prepare
<1>2. ASSUME NEW p \in Processes, Die(p) PROVE TxInv'
  BY <1>0, <1>2 DEF Die
<1>3. ASSUME NEW r \in Requests, Ask(r) \/ Attribute(r) \/ Answer(r) \/ Abort(r) PROVE TxInv'
  BY <1>0, <1>3 DEF Ask, Attribute, Identify, Enroll, Answer, Collide, Abort
<1>4. ASSUME NEW t \in Business, Store(t) PROVE TxInv'
  BY <1>0, <1>4 DEF Store
<1>5. CASE UNCHANGED vars
  BY <1>0, <1>5 DEF vars
<1> QED
  BY <1>1, <1>2, <1>3, <1>4, <1>5 DEF Next

LEMMA SeedStep == IInv /\ [Next]_vars => SeedInv'
<1> SUFFICES ASSUME IInv, [Next]_vars PROVE SeedInv'
  OBVIOUS
<1>0. TypeOK /\ SeedInv /\ TxInv
  BY DEF IInv
<1>1. Present(Leads) => Present(Leads)'
  BY Growing, StaysPresent
<1> USE BootstrapAssumption
    DEF SeedInv, TypeOK, Goto, Read, settings, Sessions
<1>2. ASSUME NEW p \in Processes, Prepare(p) \/ Serve(p) PROVE SeedInv'
  <2>1. CASE Start(p) BY <1>0, <1>1, <2>1 DEF Start
  <2>2. CASE CheckSchema(p) BY <1>0, <1>1, <2>2 DEF CheckSchema, Prepared
  <2>3. CASE CreateSchema(p) BY <1>0, <1>1, <2>3 DEF CreateSchema
  <2>4. CASE CommitSchema(p) BY <1>0, <1>1, <2>4 DEF CommitSchema, Prepared
  <2>5. CASE Count(p) BY <1>0, <1>1, <2>5 DEF Count, Empty
  <2>6. CASE Identify(p) BY <1>0, <1>1, <2>6 DEF Identify
  <2>7. CASE Enroll(p) BY <1>0, <1>1, <2>7 DEF Enroll
  <2>8. CASE CommitSeed(p)
    <3>1. Leads \in Business
      BY DEF Leads, Business
    <3>2. BatchRow(p, Leads) \in db' /\ BatchRow(p, Leads).table = Leads
      BY <2>8, <3>1 DEF CommitSeed, Filled, Commit, BatchRow, Row
    <3>3. Present(Leads)'
      BY <3>2 DEF Present
    <3> QED BY <1>0, <2>8, <3>3 DEF CommitSeed
  <2>9. CASE Serve(p) BY <1>0, <1>1, <2>9 DEF Serve
  <2>10. CASE Collide(p) BY <1>0, <1>1, <2>10 DEF Collide
  <2>11. ASSUME NEW t \in Business, Fill(p, t) PROVE SeedInv'
    BY <1>0, <1>1, <2>11 DEF Fill
  <2> QED BY <1>2, <2>1, <2>2, <2>3, <2>4, <2>5, <2>6, <2>7, <2>8, <2>9, <2>10, <2>11 DEF Prepare
<1>3. ASSUME NEW p \in Processes, Die(p) PROVE SeedInv'
  BY <1>0, <1>1, <1>3 DEF Die
<1>4. ASSUME NEW r \in Requests, Ask(r) \/ Attribute(r) \/ Answer(r) \/ Abort(r) PROVE SeedInv'
  BY <1>0, <1>1, <1>4 DEF Ask, Attribute, Identify, Enroll, Answer, Collide, Abort
<1>5. ASSUME NEW t \in Business, Store(t) PROVE SeedInv'
  BY <1>0, <1>1, <1>5 DEF Store
<1>6. CASE UNCHANGED vars
  BY <1>0, <1>1, <1>6 DEF vars
<1> QED
  BY <1>2, <1>3, <1>4, <1>5, <1>6 DEF Next

(* A commit that carries a process's name is the commit of its whole batch.*)
LEMMA Committed ==
  ASSUME IInv, [Next]_vars, NEW x \in db' \ db
  PROVE  x.by = Nobody \/ \E p \in Processes : CommitSeed(p) /\ x \in tx[p]
<1>0. TypeOK /\ TxInv
  BY DEF IInv
<1>1. \A t \in Business \cup {Schema, Users} : Own(t).by = Nobody
  BY DEF Own, Row
<1>2. ASSUME NEW p \in Processes, CommitSchema(p) PROVE x.by = Nobody
  <2>1. x \in {Own(Schema), Own(Users)}
    BY <1>0, <1>2 DEF CommitSchema, Commit, TxInv
  <2> QED BY <1>1, <2>1
<1>3. ASSUME NEW r \in Requests, Answer(r) PROVE x.by = Nobody
  <2>1. x \in {Own(Users)}
    BY <1>0, <1>3 DEF Answer, Commit, TxInv
  <2> QED BY <1>1, <2>1
<1>4. ASSUME NEW t \in Business, Store(t) PROVE x.by = Nobody
  BY <1>1, <1>4 DEF Store
<1>5. ASSUME NEW p \in Processes, CommitSeed(p) PROVE x \in tx[p]
  BY <1>5 DEF CommitSeed, Commit
<1>6. \/ \E p \in Processes : CommitSchema(p) \/ CommitSeed(p)
      \/ \E r \in Requests : Answer(r)
      \/ \E t \in Business : Store(t)
  BY DEF Next, Prepare, Attribute, Start, CheckSchema, CreateSchema, Count, Identify, Enroll, Fill,
         Serve, Collide, Ask, Abort, Die, Write, Rollback, Read, vars
<1> QED
  BY <1>2, <1>3, <1>4, <1>5, <1>6

LEMMA PreparedStep == IInv /\ [Next]_vars => ServesPrepared'
<1> SUFFICES ASSUME IInv, [Next]_vars PROVE ServesPrepared'
  OBVIOUS
<1>1. SeedInv' /\ db \subseteq db'
  BY SeedStep, Growing
<1>2. \A p \in Processes : pc'[p] = "serving" /\ seeds'[p] => Present(Leads)'
  BY <1>1 DEF SeedInv
<1>3. CASE \A x \in db' \ db : x.by = Nobody
  <2>1. \A x \in db' : x.by \in Processes =>
          {Row(t, x.by, x.start) : t \in Business} \subseteq db'
    BY <1>1, <1>3, WholeKept DEF IInv
  <2> QED BY <1>2, <2>1 DEF ServesPrepared
<1>4. CASE \E x \in db' \ db : x.by # Nobody
  <2>1. PICK p \in Processes : CommitSeed(p)
    BY <1>4, Committed
  <2>2. tx[p] \subseteq {Own(Schema), Own(Users)} \cup Batch(p)
    BY DEF IInv, TxInv
  <2>3. Batch(p) \subseteq db' /\ db' = db \cup tx[p]
    BY <2>1 DEF CommitSeed, Filled, Commit, Batch
  <2>4. ASSUME NEW x \in db', x.by \in Processes
        PROVE  {Row(t, x.by, x.start) : t \in Business} \subseteq db'
    <3>1. CASE x \in db
      BY <1>1, <2>4, <3>1 DEF IInv, ServesPrepared
    <3>2. CASE x \in Batch(p)
      <4>1. x.by = p /\ x.start = starts[p]
        BY <3>2 DEF Batch, BatchRow, Row
      <4> QED BY <2>3, <4>1 DEF Batch, BatchRow
    <3>3. x \notin {Own(Schema), Own(Users)}
      BY <2>4, BootstrapAssumption DEF Own, Row
    <3> QED BY <2>2, <2>3, <3>1, <3>2, <3>3
  <2> QED BY <1>2, <2>4 DEF ServesPrepared
<1> QED
  BY <1>3, <1>4

(* The invariant holds throughout.                                         *)
THEOREM Invariant == Spec => []IInv
<1>1. IInv /\ [Next]_vars => IInv'
  BY TypeStep, TxStep, SeedStep, PreparedStep DEF IInv
<1> QED
  BY InvInit, <1>1, PTL DEF Spec

(* The database and the sessions keep their types.                         *)
THEOREM TypeCorrect == Spec => []TypeOK
<1>1. IInv => TypeOK
  BY DEF IInv
<1> QED
  BY Invariant, <1>1, PTL

(* db/seed.py: a batch of demo data is committed as a whole, and no        *)
(* process that was to seed serves without leads, however often processes  *)
(* are killed and restarted.                                               *)
THEOREM WholeOrNothing == Spec => []ServesPrepared
<1>1. IInv => ServesPrepared
  BY DEF IInv
<1> QED
  BY Invariant, <1>1, PTL

(* db/seed.py: no start that began after a lead was stored commits demo    *)
(* data.                                                                   *)
THEOREM NeverOverLeads == Spec => SeedsOnlyWithoutLeads
<1>1. ASSUME IInv, [Next]_vars, NEW x \in db' \ db, x.by \in Processes
      PROVE  ~ leadAt[x.by]
  <2>1. PICK p \in Processes : CommitSeed(p) /\ x \in tx[p]
    BY <1>1, Committed, BootstrapAssumption
  <2>2. x \in Batch(p)
    <3>1. x \in {Own(Schema), Own(Users)} \cup Batch(p)
      BY <1>1, <2>1 DEF IInv, TxInv
    <3> QED BY <1>1, <3>1, BootstrapAssumption DEF Own, Row
  <2>3. x.by = p
    BY <2>2 DEF Batch, BatchRow, Row
  <2>4. pc[p] = "working"
    BY <2>1 DEF CommitSeed
  <2> QED BY <1>1, <2>3, <2>4 DEF IInv, SeedInv
<1>2. IInv /\ [Next]_vars => [\A x \in db' \ db : x.by \in Processes => ~ leadAt[x.by]]_vars
  BY <1>1
<1> QED
  BY Invariant, <1>2, PTL DEF Spec, SeedsOnlyWithoutLeads
==============================================================================
