----------------------------- MODULE OverridesProofs -----------------------------
(***************************************************************************)
(* Theorems about Overrides, for any managers, queue workers, branches,    *)
(* days and requests, with clean-ups that overlap and are lost.            *)
(***************************************************************************)
EXTENDS Overrides, FiniteSetTheorems, TLAPS

--------------------------------------------------------------------------------
(* The inductive invariant, in parts. *)

Shape ==
  /\ overrides \subseteq Row
  /\ deleted \subseteq Row
  /\ request \in [Managers -> Request]
  /\ cleanup \in [Workers -> Cleanup]
  /\ accepted \in [Scopes -> Nat]
  /\ asked \in 0 .. MaxRequests
  /\ stamps \in Nat
  /\ today \in Days

(* Ids and stamps are given once. *)
Keys ==
  /\ \A r, q \in overrides : r.id = q.id \/ r.stamp = q.stamp => r = q
  /\ \A r \in overrides : r.id <= asked /\ r.stamp <= stamps
  /\ \A r \in deleted :
       r.id <= asked /\ r.type = "with_expiry" /\ \A q \in overrides : q.id # r.id

Creating(m) == request[m].phase = "create"
Saving(m) == request[m].phase = "save"

(* A request has an id of its own, or a row that is still in the table:     *)
(* persistent rows are never deleted.                                       *)
Requested ==
  /\ \A m \in Managers : Creating(m) =>
       /\ request[m].value <= asked
       /\ \A r \in overrides \cup deleted : r.id # request[m].value
  /\ \A m, n \in Managers :
       m # n /\ Creating(m) /\ Creating(n) => request[m].value # request[n].value
  /\ \A m \in Managers : Saving(m) =>
       /\ request[m].row.type = "persistent"
       /\ \E q \in Persistent(request[m].row.scope) : q.id = request[m].row.id

Single == \A b \in Branches : \A r, q \in Persistent(b) : r = q

(* What was accepted last is in the newest row. *)
Current ==
  \A s \in Scopes : accepted[s] # 0 =>
    \E r \in Persistent(s) :
      r.value = accepted[s] /\ \A q \in Persistent(s) : q.stamp <= r.stamp

(* A clean-up that notifies has every row its delete will find, unless the  *)
(* row was created for a past date: rows of earlier days were there.        *)
InEffectOnce(r, day) == r.type = "with_expiry" /\ r.expires < day /\ r.born <= r.expires

Noticed ==
  /\ \A w \in Workers : cleanup[w].day <= today
  /\ \A w \in Workers : cleanup[w].phase = "notify" =>
       \A r \in overrides :
         InEffectOnce(r, cleanup[w].day) => r.id \in notified \/ r \in cleanup[w].todo
  /\ DeletedWasNotified

OverridesInv == Shape /\ Keys /\ Requested /\ Single /\ Current /\ Noticed

--------------------------------------------------------------------------------
LEMMA RequestCases ==
  ASSUME Shape, NEW m \in Managers
  PROVE  /\ Creating(m) => request[m].scope \in Scopes /\ request[m].value \in Requests
         /\ Saving(m) => request[m].row \in Row /\ request[m].value \in Requests
         /\ request[m] = NoRequest => ~Creating(m) /\ ~Saving(m)
<1>1. request[m] \in Request
  BY DEF Shape
<1> QED
  BY <1>1 DEF Request, NoRequest, Creating, Saving

LEMMA OverridesInit == Init => OverridesInv
<1> SUFFICES ASSUME Init PROVE OverridesInv
  OBVIOUS
<1>1. Shape
  BY OverridesAssumption DEF Init, Shape, Request, NoRequest, Cleanup, NoCleanup, Days
<1>2. Keys /\ Single /\ Current
  BY DEF Init, Keys, Single, Current, Persistent
<1>3. Requested
  BY <1>1, RequestCases DEF Init, Requested
<1>4. Noticed
  BY OverridesAssumption DEF Init, Noticed, NoCleanup, DeletedWasNotified
<1> QED
  BY <1>1, <1>2, <1>3, <1>4 DEF OverridesInv

(* A row that is inserted has a new id, the newest stamp, and was born      *)
(* today; a persistent one is the only one of its branch.                   *)
LEMMA InsertKeeps ==
  ASSUME OverridesInv, NEW row \in Row,
         overrides' = overrides \cup {row}, UNCHANGED <<job, today>>,
         stamps' = stamps + 1, row.stamp = stamps + 1, row.born = today,
         asked' \in 0 .. MaxRequests, asked <= asked', row.id <= asked',
         \A r \in overrides \cup deleted : r.id # row.id,
         request' \in [Managers -> Request],
         \A m \in Managers : request'[m] = request[m] \/ request'[m] = NoRequest,
         \A m \in Managers : request'[m].phase = "create" => request'[m].value # row.id,
         row.type = "persistent" =>
           /\ ConstraintAllows(row.scope)
           /\ accepted' = [accepted EXCEPT ![row.scope] = row.value],
         row.type # "persistent" => accepted' = accepted
  PROVE  OverridesInv'
<1>1. /\ row.scope \in Scopes /\ row.value \in Nat /\ row.id \in Nat /\ row.stamp \in Nat
      /\ row.expires \in Nat /\ today \in Nat /\ stamps \in Nat /\ asked \in Nat
  BY OverridesAssumption DEF Row, Requests, Days, OverridesInv, Shape
<1>2. Shape'
  BY <1>1 DEF OverridesInv, Shape, job
<1>3. Keys'
  <2>1. \A r \in overrides : r.id <= asked' /\ r.stamp <= stamps' /\ r.stamp # row.stamp
    BY <1>1 DEF OverridesInv, Keys, Shape, Row, Requests
  <2>2. \A r \in deleted : r.id <= asked'
    BY <1>1 DEF OverridesInv, Keys, Shape, Row, Requests
  <2> QED
    BY <1>1, <2>1, <2>2 DEF OverridesInv, Keys, job
<1>4. \A s : Persistent(s)' = Persistent(s) \cup (IF row.scope = s /\ row.type = "persistent"
                                                 THEN {row} ELSE {})
  BY DEF Persistent
<1>5. Requested'
  <2>1. \A m \in Managers : (Creating(m))' => Creating(m) /\ request'[m] = request[m]
    BY DEF Creating, NoRequest
  <2>2. \A m \in Managers : (Saving(m))' => Saving(m) /\ request'[m] = request[m]
    BY DEF Saving, NoRequest
  <2>3. \A m \in Managers : Creating(m) => request[m].value <= asked'
    BY <1>1, RequestCases DEF OverridesInv, Requested, Requests
  <2>4. \A m \in Managers : (Creating(m))' => request'[m].value # row.id
    BY DEF Creating
  <2>5. ASSUME NEW m \in Managers, (Creating(m))'
        PROVE  /\ request'[m].value <= asked'
               /\ \A r \in overrides' \cup deleted' : r.id # request'[m].value
    BY <2>1, <2>3, <2>4, <2>5 DEF OverridesInv, Requested, job
  <2>6. ASSUME NEW m \in Managers, (Saving(m))'
        PROVE  (/\ request[m].row.type = "persistent"
                /\ \E q \in Persistent(request[m].row.scope) : q.id = request[m].row.id)'
    <3>1. /\ request'[m] = request[m] /\ request[m].row.type = "persistent"
          /\ \E q \in Persistent(request[m].row.scope) : q.id = request[m].row.id
      BY <2>2, <2>6 DEF OverridesInv, Requested
    <3>2. (Persistent(request[m].row.scope))' = Persistent(request'[m].row.scope)
                \cup (IF row.scope = request'[m].row.scope /\ row.type = "persistent"
                      THEN {row} ELSE {})
      BY <1>4 DEF Persistent
    <3> QED
      BY <3>1, <3>2
  <2>7. \A m, n \in Managers : m # n /\ (Creating(m))' /\ (Creating(n))'
          => request'[m].value # request'[n].value
    BY <2>1 DEF OverridesInv, Requested
  <2> QED
    BY <2>5, <2>6, <2>7 DEF Requested
<1>6. Single'
  <2>1. ASSUME NEW b \in Branches, NEW r \in Persistent(b)', NEW q \in Persistent(b)'
        PROVE  r = q
    <3>1. row.type = "persistent" /\ row.scope = b => Persistent(b) = {}
      BY OverridesAssumption DEF ConstraintAllows
    <3> QED
      BY <1>4, <2>1, <3>1 DEF OverridesInv, Single
  <2> QED
    BY <2>1 DEF Single
<1>7. Current'
  <2>1. ASSUME NEW s \in Scopes, accepted'[s] # 0
        PROVE  \E r \in Persistent(s)' :
                 r.value = accepted'[s] /\ \A q \in Persistent(s)' : q.stamp <= r.stamp
    <3>1. CASE row.type = "persistent" /\ row.scope = s
      <4>1. accepted'[s] = row.value
        BY <3>1 DEF OverridesInv, Shape
      <4>2. \A q \in Persistent(s) : q.stamp <= row.stamp
        BY <1>1 DEF OverridesInv, Keys, Shape, Persistent, Row
      <4> QED
        BY <1>1, <1>4, <3>1, <4>1, <4>2
    <3>2. CASE ~(row.type = "persistent" /\ row.scope = s)
      <4>1. accepted'[s] = accepted[s] /\ Persistent(s)' = Persistent(s)
        BY <1>4, <3>2 DEF OverridesInv, Shape
      <4> QED
        BY <2>1, <4>1 DEF OverridesInv, Current
    <3> QED
      BY <3>1, <3>2
  <2> QED
    BY <2>1 DEF Current
<1>8. Noticed'
  <2>1. \A w \in Workers : cleanup[w].day <= today /\ cleanup[w].day \in Nat
    BY DEF OverridesInv, Noticed, Shape, Cleanup, Days
  <2>2. \A w \in Workers : ~InEffectOnce(row, cleanup[w].day)
    BY <1>1, <2>1 DEF InEffectOnce
  <2> QED
    BY <2>1, <2>2 DEF OverridesInv, Noticed, DeletedWasNotified, job
<1> QED
  BY <1>2, <1>3, <1>5, <1>6, <1>7, <1>8 DEF OverridesInv

--------------------------------------------------------------------------------
(* create_override. *)

LEMMA CreateTemporaryKeeps ==
  ASSUME OverridesInv, NEW m \in Managers, CreateWithExpiry(m) \/ CreatePerRun(m)
  PROVE  OverridesInv'
<1>1. /\ asked' = asked + 1 /\ asked < MaxRequests /\ request' = request /\ accepted' = accepted
      /\ UNCHANGED <<job, today>>
  BY DEF CreateWithExpiry, CreatePerRun, Asks
<1>2. PICK type \in {"with_expiry", "per_run"}, s \in Scopes, expires \in Days, run \in {Run, NoRun} :
        Insert(type, s, asked', expires, run)
  BY OverridesAssumption DEF CreateWithExpiry, CreatePerRun, Days
<1> DEFINE row == [id |-> asked', type |-> type, scope |-> s, value |-> asked',
                   expires |-> expires, run |-> run, born |-> today, stamp |-> stamps + 1]
<1>3. /\ asked \in 0 .. MaxRequests /\ MaxRequests \in Nat /\ today \in Days /\ stamps \in Nat
      /\ request \in [Managers -> Request]
  BY OverridesAssumption DEF OverridesInv, Shape
<1>4. asked' \in Requests /\ asked' \in 0 .. MaxRequests /\ asked <= asked'
  BY <1>1, <1>3 DEF Requests
<1>5. row \in Row /\ row.type # "persistent"
  BY <1>3, <1>4 DEF Row, Types
<1>6. \A r \in overrides \cup deleted : r.id # asked'
  BY <1>1, <1>3 DEF OverridesInv, Keys, Shape, Row, Requests
<1>7. \A n \in Managers : request[n].phase = "create" => request[n].value # asked'
  BY <1>1, <1>3, RequestCases DEF OverridesInv, Requested, Creating, Requests
<1>8. overrides' = overrides \cup {row} /\ stamps' = stamps + 1
  BY <1>2 DEF Insert
<1>9. row.id = asked' /\ row.stamp = stamps + 1 /\ row.born = today
  OBVIOUS
<1> QED
  BY <1>1, <1>3, <1>4, <1>5, <1>6, <1>7, <1>8, <1>9, InsertKeeps

LEMMA CreatePersistentKeeps ==
  ASSUME OverridesInv, NEW m \in Managers, CreatePersistent(m)
  PROVE  OverridesInv'
<1> DEFINE s == request[m].scope
           value == request[m].value
           row == [id |-> value, type |-> "persistent", scope |-> s, value |-> value,
                   expires |-> 0, run |-> NoRun, born |-> today, stamp |-> stamps + 1]
<1>1. /\ Creating(m) /\ request' = [request EXCEPT ![m] = NoRequest]
      /\ UNCHANGED <<job, asked, today>>
  BY DEF CreatePersistent, Creating
<1>2. /\ asked \in 0 .. MaxRequests /\ MaxRequests \in Nat /\ today \in Days /\ stamps \in Nat
      /\ request \in [Managers -> Request]
  BY OverridesAssumption DEF OverridesInv, Shape
<1>3. s \in Scopes /\ value \in Requests /\ OverridesInv
  BY <1>1, RequestCases DEF OverridesInv
<1>4. /\ value <= asked /\ \A r \in overrides \cup deleted : r.id # value
      /\ \A n \in Managers : n # m /\ Creating(n) => request[n].value # value
  BY <1>1 DEF OverridesInv, Requested
<1>5. /\ request' \in [Managers -> Request]
      /\ \A n \in Managers : request'[n] = IF n = m THEN NoRequest ELSE request[n]
  BY <1>1, <1>2 DEF Request
<1>6. \A n \in Managers : request'[n].phase = "create" => request'[n].value # value
  BY <1>4, <1>5 DEF Creating, NoRequest
<1>7. CASE /\ ConstraintAllows(s) /\ Insert("persistent", s, value, 0, NoRun)
           /\ accepted' = [accepted EXCEPT ![s] = value]
  <2>1. row \in Row
    BY <1>2, <1>3, OverridesAssumption DEF Row, Types, Days
  <2>2. overrides' = overrides \cup {row} /\ stamps' = stamps + 1
    BY <1>7 DEF Insert
  <2>3. /\ row.id = value /\ row.value = value /\ row.scope = s /\ row.stamp = stamps + 1
        /\ row.born = today /\ row.type = "persistent"
    OBVIOUS
  <2>4. asked' \in 0 .. MaxRequests /\ asked <= asked' /\ value <= asked'
    BY <1>1, <1>2, <1>4
  <2> HIDE DEF row, s, value
  <2> QED
    BY <1>1, <1>4, <1>5, <1>6, <1>7, <2>1, <2>2, <2>3, <2>4, InsertKeeps
<1>8. CASE UNCHANGED table
  <2>1. Shape' /\ Keys' /\ Single' /\ Current' /\ Noticed'
    BY <1>1, <1>5, <1>8
    DEF OverridesInv, Shape, Keys, Single, Current, Noticed, DeletedWasNotified, table, job,
        Persistent
  <2>2. \A n \in Managers : (Creating(n))' \/ (Saving(n))' =>
          request'[n] = request[n] /\ ((Creating(n))' => Creating(n))
          /\ ((Saving(n))' => Saving(n))
    BY <1>5 DEF Creating, Saving, NoRequest
  <2>3. /\ overrides' = overrides /\ deleted' = deleted /\ asked' = asked
        /\ \A x : Persistent(x)' = Persistent(x)
    BY <1>1, <1>8 DEF table, job, Persistent
  <2>4. ASSUME NEW n \in Managers, (Saving(n))'
        PROVE  (/\ request[n].row.type = "persistent"
                /\ \E q \in Persistent(request[n].row.scope) : q.id = request[n].row.id)'
    <3>1. /\ request'[n] = request[n] /\ request[n].row.type = "persistent"
          /\ \E q \in Persistent(request[n].row.scope) : q.id = request[n].row.id
      BY <2>2, <2>4 DEF OverridesInv, Requested
    <3>2. (Persistent(request[n].row.scope))' = Persistent(request'[n].row.scope)
      BY <2>3 DEF Persistent
    <3> QED
      BY <3>1, <3>2
  <2>5. Requested'
    BY <2>2, <2>3, <2>4 DEF OverridesInv, Requested
  <2> QED
    BY <2>1, <2>5 DEF OverridesInv
<1> QED
  BY <1>7, <1>8 DEF CreatePersistent

LEMMA FindExistingKeeps ==
  ASSUME OverridesInv, NEW m \in Managers, FindExisting(m)
  PROVE  OverridesInv'
<1>1. /\ asked' = asked + 1 /\ asked < MaxRequests /\ request[m] = NoRequest
      /\ UNCHANGED <<job, today, table>>
  BY DEF FindExisting, Asks
<1>2. /\ asked \in 0 .. MaxRequests /\ MaxRequests \in Nat
      /\ request \in [Managers -> Request] /\ overrides \subseteq Row
  BY OverridesAssumption DEF OverridesInv, Shape
<1>3. asked' \in Requests /\ asked' \in 0 .. MaxRequests /\ asked <= asked'
  BY <1>1, <1>2 DEF Requests
<1>4. PICK s \in Scopes, new \in Request :
        /\ request' = [request EXCEPT ![m] = new]
        /\ \/ new = [phase |-> "create", scope |-> s, value |-> asked']
           \/ \E r \in Persistent(s) : new = [phase |-> "save", row |-> r, value |-> asked']
  <2>1. \A s \in Scopes : [phase |-> "create", scope |-> s, value |-> asked'] \in Request
    BY <1>3 DEF Request
  <2>2. \A r \in overrides : [phase |-> "save", row |-> r, value |-> asked'] \in Request
    BY <1>2, <1>3 DEF Request
  <2>3. \A s \in Scopes : Newest(Persistent(s)) \subseteq Persistent(s) /\ Persistent(s) \subseteq overrides
    BY DEF Newest, Persistent
  <2>4. PICK s \in Scopes :
          \/ request' = [request EXCEPT ![m] =
                           [phase |-> "create", scope |-> s, value |-> asked']]
          \/ \E r \in Newest(Persistent(s)) :
               request' = [request EXCEPT ![m] = [phase |-> "save", row |-> r, value |-> asked']]
    BY DEF FindExisting
  <2> QED
    BY <2>1, <2>2, <2>3, <2>4
<1>5. /\ request' \in [Managers -> Request]
      /\ \A n \in Managers : request'[n] = IF n = m THEN new ELSE request[n]
  BY <1>2, <1>4
<1>6. /\ overrides' = overrides /\ deleted' = deleted /\ stamps' = stamps
      /\ cleanup' = cleanup /\ notified' = notified /\ accepted' = accepted /\ today' = today
  BY <1>1 DEF table, job
<1>7. Shape' /\ Single' /\ Current' /\ Noticed'
  BY <1>3, <1>5, <1>6
  DEF OverridesInv, Shape, Single, Current, Noticed, DeletedWasNotified, Persistent
<1>8. Keys' /\ \A r \in overrides \cup deleted : r.id # asked'
  BY <1>1, <1>2, <1>6 DEF OverridesInv, Keys, Shape, Row, Requests
<1>9. \A n \in Managers : Creating(n) => request[n].value <= asked' /\ request[n].value # asked'
  BY <1>1, <1>2, RequestCases DEF OverridesInv, Requested, Requests
<1>10. ASSUME NEW n \in Managers, (Creating(n))'
       PROVE  /\ request'[n].value <= asked'
              /\ \A r \in overrides' \cup deleted' : r.id # request'[n].value
              /\ n # m => Creating(n) /\ request'[n] = request[n]
              /\ n = m => request'[n].value = asked'
  <2>1. CASE n = m
    BY <1>3, <1>4, <1>5, <1>6, <1>8, <1>10, <2>1 DEF Creating, Requests
  <2>2. CASE n # m
    BY <1>5, <1>6, <1>9, <1>10, <2>2 DEF Creating, OverridesInv, Requested
  <2> QED
    BY <2>1, <2>2
<1>11. ASSUME NEW n \in Managers, (Saving(n))'
       PROVE  (/\ request[n].row.type = "persistent"
               /\ \E q \in Persistent(request[n].row.scope) : q.id = request[n].row.id)'
  <2>1. (Persistent(request[n].row.scope))' = Persistent(request'[n].row.scope)
    BY <1>6 DEF Persistent
  <2>2. CASE n = m
    <3>1. PICK r \in Persistent(s) : request'[m].row = r
      BY <1>4, <1>5, <1>11, <2>2 DEF Saving
    <3>2. r.type = "persistent" /\ r.scope = s
      BY DEF Persistent
    <3> QED
      BY <2>1, <2>2, <3>1, <3>2
  <2>3. CASE n # m
    BY <1>5, <1>11, <2>1, <2>3 DEF Saving, OverridesInv, Requested
  <2> QED
    BY <2>2, <2>3
<1>12. Requested'
  <2>1. \A n, k \in Managers : n # k /\ (Creating(n))' /\ (Creating(k))'
          => request'[n].value # request'[k].value
    BY <1>9, <1>10 DEF OverridesInv, Requested
  <2> QED
    BY <1>10, <1>11, <2>1 DEF Requested
<1> QED
  BY <1>7, <1>8, <1>12 DEF OverridesInv

LEMMA SavedRow ==
  ASSUME NEW r \in Row, NEW v \in Requests, stamps \in Nat
  PROVE  /\ Saved(r, v) \in Row /\ Saved(r, v).id = r.id /\ Saved(r, v).type = r.type
         /\ Saved(r, v).scope = r.scope /\ Saved(r, v).value = v
         /\ Saved(r, v).stamp = stamps + 1
<1>1. stamps + 1 \in Nat
  OBVIOUS
<1> QED
  BY <1>1 DEF Saved, Row

(* The saved instance takes the place of the one row with its id.           *)
LEMMA SaveExistingKeeps ==
  ASSUME OverridesInv, NEW m \in Managers, SaveExisting(m)
  PROVE  OverridesInv'
<1>0. PICK r, v, new : r = request[m].row /\ v = request[m].value /\ new = Saved(r, v)
  OBVIOUS
<1>1. /\ Saving(m) /\ request' = [request EXCEPT ![m] = NoRequest]
      /\ overrides' = {q \in overrides : q.id # r.id} \cup {new}
      /\ accepted' = [accepted EXCEPT ![r.scope] = v] /\ stamps' = stamps + 1
      /\ UNCHANGED <<job, asked, today>>
  BY <1>0 DEF SaveExisting, Saving
<1>2. /\ asked \in 0 .. MaxRequests /\ MaxRequests \in Nat /\ today \in Days /\ stamps \in Nat
      /\ request \in [Managers -> Request] /\ overrides \subseteq Row
      /\ accepted \in [Scopes -> Nat]
  BY OverridesAssumption DEF OverridesInv, Shape
<1>3. r \in Row /\ v \in Requests /\ r.type = "persistent" /\ r.scope \in Scopes
  BY <1>0, <1>1, RequestCases DEF OverridesInv, Requested, Row
<1>4. PICK old \in overrides : old.id = r.id /\ old.type = "persistent" /\ old.scope = r.scope
  BY <1>0, <1>1 DEF OverridesInv, Requested, Persistent
<1>5. /\ new \in Row /\ new.id = r.id /\ new.type = "persistent" /\ new.scope = r.scope
      /\ new.value = v /\ new.stamp = stamps + 1
  BY <1>0, <1>2, <1>3, SavedRow
<1>6. /\ request' \in [Managers -> Request]
      /\ \A n \in Managers : request'[n] = IF n = m THEN NoRequest ELSE request[n]
  BY <1>1, <1>2 DEF Request
<1>7. /\ \A q \in overrides : q.id = r.id <=> q = old
      /\ \A q \in overrides' : q = new \/ (q \in overrides /\ q # old)
      /\ \A q \in overrides : q = old \/ q \in overrides'
      /\ new \in overrides'
  BY <1>1, <1>4 DEF OverridesInv, Keys
<1>8. /\ \A x : \A q \in (Persistent(x))' : q = new \/ (q \in Persistent(x) /\ q # old)
      /\ \A x : \A q \in Persistent(x) : q = old \/ q \in (Persistent(x))'
      /\ new \in (Persistent(r.scope))'
      /\ \A x : x # r.scope => (Persistent(x))' = Persistent(x)
  BY <1>4, <1>5, <1>7 DEF Persistent
<1>9. Shape'
  BY <1>1, <1>2, <1>3, <1>5, <1>6 DEF OverridesInv, Shape, job, Requests
<1>10. Keys'
  <2>1. /\ asked \in Nat /\ \A q \in overrides : q.stamp \in Nat /\ q.stamp <= stamps
        /\ old.id <= asked
    BY <1>2, <1>4 DEF OverridesInv, Keys, Row, Requests
  <2>2. \A q \in overrides' : q.id <= asked /\ q.stamp <= stamps'
    BY <1>1, <1>2, <1>4, <1>5, <1>7, <2>1 DEF OverridesInv, Keys
  <2>3. \A q \in overrides : q # old => q.id # new.id /\ q.stamp # new.stamp
    BY <1>2, <1>5, <1>7, <2>1
  <2>4. \A p, q \in overrides' : p.id = q.id \/ p.stamp = q.stamp => p = q
    BY <1>7, <2>3 DEF OverridesInv, Keys
  <2>5. \A d \in deleted : \A q \in overrides' : q.id # d.id
    BY <1>4, <1>5, <1>7 DEF OverridesInv, Keys
  <2> QED
    BY <1>1, <2>2, <2>4, <2>5 DEF OverridesInv, Keys, job
<1>11. Requested'
  <2>1. \A n \in Managers : n # m => request'[n] = request[n]
    BY <1>6
  <2>2. ~(Creating(m))' /\ ~(Saving(m))'
    BY <1>6 DEF Creating, Saving, NoRequest
  <2>3. ASSUME NEW n \in Managers, (Creating(n))'
        PROVE  /\ Creating(n) /\ request'[n].value <= asked'
               /\ \A q \in overrides' \cup deleted' : q.id # request'[n].value
    <3>1. Creating(n) /\ request'[n] = request[n]
      BY <2>1, <2>2, <2>3 DEF Creating
    <3>2. \A q \in overrides' : q.id # request[n].value
      BY <1>4, <1>5, <1>7, <3>1 DEF OverridesInv, Requested
    <3> QED
      BY <1>1, <3>1, <3>2 DEF OverridesInv, Requested, job
  <2>4. ASSUME NEW n \in Managers, (Saving(n))'
        PROVE  (/\ request[n].row.type = "persistent"
                /\ \E q \in Persistent(request[n].row.scope) : q.id = request[n].row.id)'
    <3>1. Saving(n) /\ request'[n] = request[n]
      BY <2>1, <2>2, <2>4 DEF Saving
    <3>2. PICK q \in Persistent(request[n].row.scope) : q.id = request[n].row.id
      BY <3>1 DEF OverridesInv, Requested
    <3>3. request[n].row.type = "persistent"
      BY <3>1 DEF OverridesInv, Requested
    <3>4. q = old => request[n].row.scope = r.scope /\ new.id = request[n].row.id
      BY <1>4, <1>5, <3>2 DEF Persistent
    <3>5. \E p \in (Persistent(request[n].row.scope))' : p.id = request'[n].row.id
      <4>1. \E p \in overrides' : p.scope = request'[n].row.scope /\ p.type = "persistent"
                                  /\ p.id = request'[n].row.id
        BY <1>5, <1>7, <3>1, <3>2, <3>4 DEF Persistent
      <4> QED
        BY <4>1 DEF Persistent
    <3> QED
      BY <3>1, <3>3, <3>5
  <2>5. \A n, k \in Managers : n # k /\ (Creating(n))' /\ (Creating(k))'
          => request'[n].value # request'[k].value
    BY <2>1, <2>2, <2>3 DEF OverridesInv, Requested
  <2> QED
    BY <2>3, <2>4, <2>5 DEF Requested
<1>12. Single'
  <2>1. ASSUME NEW b \in Branches, NEW p \in (Persistent(b))', NEW q \in (Persistent(b))'
        PROVE  p = q
    <3>1. CASE b = r.scope
      <4>1. old \in Persistent(b) /\ \A x \in Persistent(b) : x = old
        BY <1>4, <3>1 DEF Persistent, OverridesInv, Single
      <4> QED
        BY <1>8, <2>1, <4>1
    <3>2. CASE b # r.scope
      BY <1>8, <2>1, <3>2 DEF OverridesInv, Single
    <3> QED
      BY <3>1, <3>2
  <2> QED
    BY <2>1 DEF Single
<1>13. Current'
  <2>1. ASSUME NEW s \in Scopes, accepted'[s] # 0
        PROVE  \E p \in (Persistent(s))' :
                 p.value = accepted'[s] /\ \A q \in (Persistent(s))' : q.stamp <= p.stamp
    <3>1. CASE s = r.scope
      <4>1. accepted'[s] = v
        BY <1>1, <1>2, <3>1
      <4>2. \A q \in (Persistent(s))' : q.stamp <= new.stamp
        BY <1>2, <1>5, <1>8 DEF OverridesInv, Keys, Persistent, Row
      <4> QED
        BY <1>5, <1>8, <3>1, <4>1, <4>2
    <3>2. CASE s # r.scope
      <4>1. accepted'[s] = accepted[s] /\ (Persistent(s))' = Persistent(s)
        BY <1>1, <1>2, <1>8, <3>2
      <4> QED
        BY <2>1, <4>1 DEF OverridesInv, Current
    <3> QED
      BY <3>1, <3>2
  <2> QED
    BY <2>1 DEF Current
<1>14. Noticed'
  <2>1. \A day : \A q \in overrides' : InEffectOnce(q, day) => q \in overrides
    BY <1>5, <1>7 DEF InEffectOnce
  <2> QED
    BY <1>1, <2>1 DEF OverridesInv, Noticed, DeletedWasNotified, job
<1> QED
  BY <1>9, <1>10, <1>11, <1>12, <1>13, <1>14 DEF OverridesInv

--------------------------------------------------------------------------------
(* The clock and the clean-ups. *)

(* Steps that leave the requests alone, and only take temporary rows away.  *)
LEMMA RowsTakenKeep ==
  ASSUME OverridesInv, overrides' \subseteq overrides,
         UNCHANGED <<request, accepted, asked, stamps>>,
         \A r \in overrides : r \in overrides' \/ r.type = "with_expiry",
         deleted' = deleted \cup (overrides \ overrides'),
         cleanup' \in [Workers -> Cleanup], today' \in Days
  PROVE  (Shape /\ Keys /\ Requested /\ Single /\ Current)'
<1>1. \A x : (Persistent(x))' = Persistent(x)
  BY DEF Persistent
<1>2. Shape'
  BY DEF OverridesInv, Shape
<1>3. Keys'
  BY DEF OverridesInv, Keys
<1>4. Requested'
  <2>1. \A n \in Managers : request'[n] = request[n]
    OBVIOUS
  <2>2. \A n \in Managers :
          (Persistent(request[n].row.scope))' = Persistent(request[n].row.scope)
    BY DEF Persistent
  <2>3. \A r \in overrides' \cup deleted' : r \in overrides \cup deleted
    OBVIOUS
  <2> QED
    BY <2>1, <2>2, <2>3 DEF OverridesInv, Requested, Creating, Saving
<1>5. Single' /\ Current'
  BY <1>1 DEF OverridesInv, Single, Current
<1> QED
  BY <1>2, <1>3, <1>4, <1>5

LEMMA CleanupType ==
  ASSUME OverridesInv, NEW w \in Workers
  PROVE  /\ cleanup[w].day \in Days /\ cleanup[w].todo \subseteq Row
         /\ cleanup \in [Workers -> Cleanup] /\ NoCleanup \in Cleanup
BY OverridesAssumption DEF OverridesInv, Shape, Cleanup, NoCleanup, Days

LEMMA TodayType ==
  ASSUME OverridesInv
  PROVE  /\ today \in Days /\ today \in Nat
         /\ \A r \in overrides : r.expires \in Nat /\ r.born \in Nat
         /\ \A w \in Workers : cleanup[w].day \in Nat /\ cleanup[w].day <= today
BY OverridesAssumption DEF OverridesInv, Shape, Noticed, Row, Cleanup, Days

LEMMA CleanupKeeps ==
  ASSUME OverridesInv, NEW w \in Workers, StartCleanup(w) \/ CleanupStep(w) \/ CleanupLost(w)
  PROVE  OverridesInv'
<1>1. /\ cleanup[w].day \in Days /\ cleanup[w].todo \subseteq Row
      /\ cleanup \in [Workers -> Cleanup] /\ NoCleanup \in Cleanup /\ cleanup[w] \in Cleanup
  BY CleanupType DEF OverridesInv, Shape
<1>2. today \in Days /\ overrides \subseteq Row
  BY DEF OverridesInv, Shape
<1>3. ASSUME UNCHANGED <<table, request, asked, today, deleted>>,
             NEW new \in Cleanup, cleanup' = [cleanup EXCEPT ![w] = new],
             notified \subseteq notified', new.day <= today,
             new.phase = "notify" =>
               \A r \in overrides : InEffectOnce(r, new.day) => r.id \in notified' \/ r \in new.todo
      PROVE  OverridesInv'
  <2>1. cleanup' \in [Workers -> Cleanup]
    BY <1>1, <1>3
  <2>2. (Shape /\ Keys /\ Requested /\ Single /\ Current)'
    BY <1>2, <1>3, <2>1, RowsTakenKeep DEF table
  <2>3. Noticed'
    BY <1>1, <1>3 DEF OverridesInv, Noticed, DeletedWasNotified, table
  <2> QED
    BY <2>2, <2>3 DEF OverridesInv
<1>4. NoCleanup.phase = "idle" /\ NoCleanup.day = 0 /\ 0 <= today
  BY TodayType DEF NoCleanup
<1>5. CASE StartCleanup(w)
  <2> DEFINE new == [NoCleanup EXCEPT !.phase = "fetch", !.day = today]
  <2>1. new \in Cleanup /\ new.phase = "fetch" /\ new.day = today
    BY <1>1, <1>2 DEF Cleanup
  <2>2. today <= today
    BY TodayType
  <2> HIDE DEF new
  <2>3. cleanup' = [cleanup EXCEPT ![w] = new]
    BY <1>5 DEF StartCleanup, new
  <2> QED
    BY <1>3, <1>5, <2>1, <2>2, <2>3 DEF StartCleanup
<1>6. CASE FetchExpired(w)
  <2>1. PICK new : new = [cleanup[w] EXCEPT !.phase = "notify", !.todo = Expired(cleanup[w].day)]
    OBVIOUS
  <2>2. Expired(cleanup[w].day) \subseteq Row
    BY <1>2 DEF Expired
  <2>3. /\ new \in Cleanup /\ new.day = cleanup[w].day /\ new.todo = Expired(cleanup[w].day)
        /\ new.phase = "notify"
    BY <1>1, <2>1, <2>2 DEF Cleanup
  <2>4. cleanup' = [cleanup EXCEPT ![w] = new]
    BY <1>1, <1>6, <2>1 DEF FetchExpired
  <2>5. \A r \in overrides : InEffectOnce(r, new.day) => r \in new.todo
    BY <2>3 DEF InEffectOnce, Expired
  <2>6. new.day <= today
    BY <2>3, TodayType
  <2> QED
    BY <1>3, <1>6, <2>3, <2>4, <2>5, <2>6 DEF FetchExpired
<1>7. CASE NotifyExpired(w)
  <2>1. PICK r \in cleanup[w].todo :
          /\ cleanup' = [cleanup EXCEPT ![w] = [cleanup[w] EXCEPT !.todo = @ \ {r}]]
          /\ notified' = notified \cup {r.id}
    BY <1>7 DEF NotifyExpired
  <2>2. PICK new : new = [cleanup[w] EXCEPT !.todo = @ \ {r}]
    OBVIOUS
  <2>3. /\ new \in Cleanup /\ new.day = cleanup[w].day /\ new.todo = cleanup[w].todo \ {r}
    BY <1>1, <2>2 DEF Cleanup
  <2>4. \A q \in overrides :
          InEffectOnce(q, new.day) => q.id \in notified' \/ q \in new.todo
    BY <1>7, <2>1, <2>3 DEF NotifyExpired, OverridesInv, Noticed
  <2>5. new.day <= today
    BY <2>3, TodayType
  <2>6. cleanup' = [cleanup EXCEPT ![w] = new]
    BY <2>1, <2>2
  <2> QED
    BY <1>3, <1>7, <2>1, <2>3, <2>4, <2>5, <2>6 DEF NotifyExpired
<1>8. CASE DeleteExpired(w)
  <2>1. PICK gone : gone = Expired(cleanup[w].day)
    OBVIOUS
  <2>2. /\ overrides' = overrides \ gone /\ deleted' = deleted \cup gone
        /\ cleanup' = [cleanup EXCEPT ![w] = NoCleanup] /\ cleanup[w].todo = {}
        /\ cleanup[w].phase = "notify"
        /\ UNCHANGED <<accepted, stamps, request, notified, asked, today>>
    BY <1>8, <2>1 DEF DeleteExpired, ToDelete
  <2>3. gone \subseteq overrides /\ \A r \in gone : r.type = "with_expiry"
    BY <2>1 DEF Expired
  <2>4. cleanup' \in [Workers -> Cleanup] /\ deleted' = deleted \cup (overrides \ overrides')
    BY <1>1, <2>2, <2>3
  <2>5. (Shape /\ Keys /\ Requested /\ Single /\ Current)'
    BY <1>2, <2>2, <2>3, <2>4, RowsTakenKeep
  <2>6. \A r \in gone : r.expires >= r.born => r.id \in notified
    <3>1. \A r \in gone : r.expires >= r.born => InEffectOnce(r, cleanup[w].day)
      BY <2>1, TodayType DEF InEffectOnce, Expired
    <3> QED
      BY <2>2, <2>3, <3>1 DEF OverridesInv, Noticed
  <2>7. Noticed'
    BY <1>1, <1>4, <2>2, <2>6 DEF OverridesInv, Noticed, DeletedWasNotified
  <2> QED
    BY <2>5, <2>7 DEF OverridesInv
<1>9. CASE CleanupLost(w)
  BY <1>1, <1>3, <1>4, <1>9 DEF CleanupLost
<1> QED
  BY <1>5, <1>6, <1>7, <1>8, <1>9 DEF CleanupStep

LEMMA OverridesKept == OverridesInv /\ [Next]_vars => OverridesInv'
<1> SUFFICES ASSUME OverridesInv, [Next]_vars PROVE OverridesInv'
  OBVIOUS
<1>1. CASE NextDay
  <2>1. today' \in Days /\ today' = today + 1
    BY <1>1, OverridesAssumption, TodayType DEF NextDay, Days
  <2>2. cleanup \in [Workers -> Cleanup]
    BY DEF OverridesInv, Shape
  <2>3. (Shape /\ Keys /\ Requested /\ Single /\ Current)'
    BY <1>1, <2>1, <2>2, RowsTakenKeep DEF NextDay, table, job
  <2>4. \A w \in Workers : cleanup[w].day <= today'
    BY <2>1, TodayType
  <2> QED
    BY <1>1, <2>3, <2>4 DEF NextDay, OverridesInv, Noticed, DeletedWasNotified, table, job
<1>2. CASE UNCHANGED vars
  <2>1. cleanup \in [Workers -> Cleanup] /\ today \in Days
    BY DEF OverridesInv, Shape
  <2>2. (Shape /\ Keys /\ Requested /\ Single /\ Current)'
    BY <1>2, <2>1, RowsTakenKeep DEF vars, table, job
  <2> QED
    BY <1>2, <2>2 DEF vars, OverridesInv, Noticed, DeletedWasNotified, table, job
<1> QED
  BY <1>1, <1>2, CreateTemporaryKeeps, CreatePersistentKeeps, FindExistingKeeps,
     SaveExistingKeeps, CleanupKeeps DEF Next

THEOREM OverridesInvariant == Spec => []OverridesInv
BY OverridesInit, OverridesKept, PTL DEF Spec

--------------------------------------------------------------------------------
(* However many requests overlap, a branch has one persistent override.     *)
THEOREM PersistentIsSingle == Spec => []OnePersistentPerBranch
<1>1. OverridesInv => OnePersistentPerBranch
  <2> SUFFICES ASSUME OverridesInv, NEW b \in Branches
               PROVE  Cardinality(Persistent(b)) <= 1
    BY DEF OnePersistentPerBranch
  <2>1. CASE Persistent(b) = {}
    BY <2>1, FS_EmptySet
  <2>2. CASE Persistent(b) # {}
    <3>1. PICK r : Persistent(b) = {r}
      BY <2>2 DEF OverridesInv, Single
    <3> QED
      BY <3>1, FS_Singleton
  <2> QED
    BY <2>1, <2>2
<1> QED
  BY <1>1, OverridesInvariant, PTL

(* Planning uses the persistent override that was confirmed last, whatever  *)
(* requests overlap and whatever stale instance is saved.                   *)
THEOREM PlannedAsAccepted == Spec => []AcceptedIsUsed
<1>1. OverridesInv => AcceptedIsUsed
  <2> SUFFICES ASSUME OverridesInv, NEW s \in Scopes, accepted[s] # 0, Valid(s, today) = {}
               PROVE  \E r \in PlannedWith(s) : r.value = accepted[s]
    BY DEF AcceptedIsUsed
  <2>1. PICK r \in Persistent(s) :
          r.value = accepted[s] /\ \A q \in Persistent(s) : q.stamp <= r.stamp
    BY DEF OverridesInv, Current
  <2> QED
    BY <2>1 DEF PlannedWith, ActiveOverride, Newest
<1> QED
  BY <1>1, OverridesInvariant, PTL

(* No override that was in effect is deleted without a notice, however many *)
(* clean-ups overlap, cross midnight and are lost.                          *)
THEOREM NothingDeletedSilently == Spec => []DeletedWasNotified
<1>1. OverridesInv => DeletedWasNotified
  BY DEF OverridesInv, Noticed
<1> QED
  BY <1>1, OverridesInvariant, PTL

(* What is deleted had no effect any more: no plan changes by it.           *)
THEOREM CleanupChangesNoPlan == Spec => CleanupIsInvisible
<1>1. OverridesInv /\ [Next]_vars =>
        [today' = today /\ deleted' # deleted =>
           \A s \in Scopes, run \in {Run, NoRun} :
             (ActiveOverride(s, today, run))' = ActiveOverride(s, today, run)]_vars
  <2> SUFFICES ASSUME OverridesInv, Next, today' = today, deleted' # deleted,
                      NEW s \in Scopes, NEW run \in {Run, NoRun}
               PROVE  (ActiveOverride(s, today, run))' = ActiveOverride(s, today, run)
    OBVIOUS
  <2>1. PICK w \in Workers : DeleteExpired(w)
    BY DEF Next, NextDay, CreateWithExpiry, CreatePerRun, FindExisting, SaveExisting,
           CreatePersistent, Asks, StartCleanup, CleanupStep, FetchExpired, NotifyExpired,
           CleanupLost, job
  <2>2. overrides' = overrides \ Expired(cleanup[w].day)
    BY <2>1 DEF DeleteExpired, ToDelete
  <2>3. \A r \in Expired(cleanup[w].day) :
          r.type = "with_expiry" /\ ~(r.expires >= today)
    BY TodayType DEF Expired
  <2>4. /\ (Valid(s, today))' = Valid(s, today)
        /\ (Persistent(s))' = Persistent(s) /\ (PerRun(s, run))' = PerRun(s, run)
    BY <2>2, <2>3 DEF Valid, Persistent, PerRun
  <2> QED
    BY <2>4 DEF ActiveOverride, Newest
<1> QED
  BY <1>1, OverridesInvariant, PTL DEF Spec, CleanupIsInvisible

================================================================================
