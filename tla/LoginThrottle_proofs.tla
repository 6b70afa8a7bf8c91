--------------------------- MODULE LoginThrottle_proofs ---------------------------
(***************************************************************************)
(* Proofs about LoginThrottle, for every limit, every window and any       *)
(* finite number of concurrent logins.                                     *)
(*                                                                         *)
(* The argument is a reserve: the failures stored for an email plus the    *)
(* logins that passed its count never exceed the limit less one plus the   *)
(* number of logins.  Passing the count raises the second term while the   *)
(* first is below the limit; recording moves one from the second to the    *)
(* first; everything else lowers them.                                     *)
(***************************************************************************)
EXTENDS LoginThrottle, FiniteSetTheorems, TLAPS

-----------------------------------------------------------------------------
\* The arithmetic of the reserve, for any two finite sets: B stored, P passed.

\* Neither set grows.
LEMMA ReserveShrinks ==
  ASSUME NEW B, NEW P, NEW B2, NEW P2, NEW n \in Nat,
         IsFiniteSet(B), IsFiniteSet(P), B2 \subseteq B, P2 \subseteq P,
         Cardinality(B) + Cardinality(P) <= n
  PROVE  Cardinality(B2) + Cardinality(P2) <= n
<1>1. /\ Cardinality(B) \in Nat /\ Cardinality(P) \in Nat
      /\ Cardinality(B2) \in Nat /\ Cardinality(P2) \in Nat
      /\ Cardinality(B2) <= Cardinality(B) /\ Cardinality(P2) <= Cardinality(P)
  BY FS_Subset, FS_CardinalityType
<1> QED BY <1>1

\* A login leaves P and its failure enters B.
LEMMA ReserveMoves ==
  ASSUME NEW B, NEW P, NEW B2, NEW P2, NEW n \in Nat, NEW x, NEW r, r \in P,
         IsFiniteSet(B), IsFiniteSet(P), B2 \subseteq B \cup {x}, P2 \subseteq P \ {r},
         Cardinality(B) + Cardinality(P) <= n
  PROVE  Cardinality(B2) + Cardinality(P2) <= n
<1>1. /\ IsFiniteSet(B \cup {x}) /\ IsFiniteSet(P \ {r})
      /\ \/ Cardinality(B \cup {x}) = Cardinality(B)
         \/ Cardinality(B \cup {x}) = Cardinality(B) + 1
      /\ Cardinality(P \ {r}) = Cardinality(P) - 1
  <2>1. /\ IsFiniteSet(B \cup {x})
        /\ \/ Cardinality(B \cup {x}) = Cardinality(B)
           \/ Cardinality(B \cup {x}) = Cardinality(B) + 1
    BY FS_AddElement
  <2>2. IsFiniteSet(P \ {r}) /\ Cardinality(P \ {r}) = Cardinality(P) - 1
    BY FS_RemoveElement
  <2> QED BY <2>1, <2>2
<1>2. Cardinality(B) \in Nat /\ Cardinality(P) \in Nat
  BY FS_CardinalityType
<1>3. Cardinality(B \cup {x}) + Cardinality(P \ {r}) <= n
  BY <1>1, <1>2
<1> QED BY <1>1, <1>3, ReserveShrinks

\* Logins pass while B is below the limit m.
LEMMA ReservePasses ==
  ASSUME NEW B, NEW L, NEW B2, NEW P2, NEW m \in Nat,
         IsFiniteSet(B), IsFiniteSet(L), B2 \subseteq B, P2 \subseteq L,
         Cardinality(B) < m
  PROVE  Cardinality(B2) + Cardinality(P2) <= m - 1 + Cardinality(L)
<1>1. /\ Cardinality(B) \in Nat /\ Cardinality(L) \in Nat
      /\ Cardinality(B2) \in Nat /\ Cardinality(P2) \in Nat
      /\ Cardinality(B2) <= Cardinality(B) /\ Cardinality(P2) <= Cardinality(L)
  BY FS_Subset, FS_CardinalityType
<1> QED BY <1>1

-----------------------------------------------------------------------------

EmailRoom == MaxPerEmail - 1 + Cardinality(Logins)
IpRoom == MaxPerIp - 1 + Cardinality(Logins)

\* The sets the reserves count are finite, and the rooms are natural numbers.
LEMMA Finiteness ==
  ASSUME IInv
  PROVE  /\ \A e \in Emails : IsFiniteSet(ByEmail(e)) /\ IsFiniteSet(PassedEmail(e))
         /\ \A a \in Ips : IsFiniteSet(ByIp(a)) /\ IsFiniteSet(PassedIp(a))
         /\ EmailRoom \in Nat /\ IpRoom \in Nat
<1> DEFINE Rows == {i \in Ids : Stored(i)}
<1>1. IsFiniteSet(Rows)
  BY DEF IInv, StoredFinite
<1>2. \A e \in Emails : ByEmail(e) \subseteq Rows /\ PassedEmail(e) \subseteq Logins
  BY NullsAreNoValues DEF ByEmail, PassedEmail, Stored
<1>3. \A a \in Ips : ByIp(a) \subseteq Rows /\ PassedIp(a) \subseteq Logins
  BY DEF ByIp, PassedIp
<1>4. EmailRoom \in Nat /\ IpRoom \in Nat
  BY FinitelyManyLogins, Limits, FS_CardinalityType DEF EmailRoom, IpRoom
<1> QED BY <1>1, <1>2, <1>3, <1>4, FinitelyManyLogins, FS_Subset

\* A step that adds no row and lets no login pass keeps the invariant.
LEMMA ShrinkKeeps ==
  ASSUME IInv, TypeOK', LocalsWellFormed',
         \A i \in Ids : Stored(i)' => Stored(i),
         \A e \in Emails : ByEmail(e)' \subseteq ByEmail(e) /\ PassedEmail(e)' \subseteq PassedEmail(e),
         \A a \in Ips : ByIp(a)' \subseteq ByIp(a) /\ PassedIp(a)' \subseteq PassedIp(a)
  PROVE  IInv'
<1>1. StoredFinite'
  <2>1. {i \in Ids : Stored(i)'} \subseteq {i \in Ids : Stored(i)}
    OBVIOUS
  <2> QED BY <2>1, FS_Subset DEF IInv, StoredFinite
<1>2. ASSUME NEW e \in Emails
      PROVE  Cardinality(ByEmail(e)') + Cardinality(PassedEmail(e)') <= EmailRoom
  BY Finiteness, ReserveShrinks DEF IInv, EmailReserve, EmailRoom
<1>3. ASSUME NEW a \in Ips
      PROVE  Cardinality(ByIp(a)') + Cardinality(PassedIp(a)') <= IpRoom
  BY Finiteness, ReserveShrinks DEF IInv, IpReserve, IpRoom
<1>4. EmailReserve' /\ IpReserve'
  BY <1>2, <1>3 DEF EmailReserve, IpReserve, EmailRoom, IpRoom
<1> QED BY <1>1, <1>4 DEF IInv

-----------------------------------------------------------------------------

\* Every statement leaves the table and the locals well typed.
LEMMA TypeKeeps ==
  ASSUME TypeOK, LocalsWellFormed, StoredFinite, [Next]_vars
  PROVE  TypeOK' /\ LocalsWellFormed'
<1> USE NullsAreNoValues, Limits
<1> USE DEF TypeOK, LocalsWellFormed, Attempt, NoAttempt, Login, Idle
<1>1. ASSUME NEW r \in Logins, NEW e \in Emails, NEW a \in Ips \cup {NoIp},
             CountByEmail(r, e, a)
      PROVE  TypeOK' /\ LocalsWellFormed'
  <2>1. Cardinality(ByEmail(e)) \in Nat
    <3>1. ByEmail(e) \subseteq {i \in Ids : Stored(i)}
      BY DEF ByEmail, Stored
    <3> QED BY <3>1, FS_Subset, FS_CardinalityType DEF StoredFinite
  <2> DEFINE new == [pc |-> IF a = NoIp THEN "compare" ELSE "count_ip",
                     email |-> e, ip |-> a, by_email |-> Cardinality(ByEmail(e))]
  <2>2. new \in Login /\ new.email \in Emails
    BY <2>1
  <2>3. attempt' = attempt /\ login' = [login EXCEPT ![r] = new]
    BY <1>1 DEF CountByEmail
  <2> HIDE DEF new
  <2>4. TypeOK'
    BY <2>2, <2>3 DEF TypeOK
  <2>5. LocalsWellFormed'
    BY <2>2, <2>3
  <2> QED BY <2>4, <2>5
<1>2. ASSUME NEW r \in Logins, CountByIp(r)
      PROVE  TypeOK' /\ LocalsWellFormed'
  BY <1>2 DEF CountByIp
<1>3. ASSUME NEW r \in Logins, NEW m \in BOOLEAN, Compare(r, m)
      PROVE  TypeOK' /\ LocalsWellFormed'
  BY <1>3 DEF Compare
<1>4. ASSUME NEW r \in Logins, Record(r)
      PROVE  TypeOK' /\ LocalsWellFormed'
  <2> DEFINE new == [email |-> login[r].email, ip |-> login[r].ip, age |-> 0]
  <2>1. FreeId \in Ids
    BY <1>4 DEF Record, FreeId
  <2>2. new \in Attempt
    BY <1>4 DEF Record
  <2>3. /\ attempt' = [attempt EXCEPT ![FreeId] = new]
        /\ login' = [login EXCEPT ![r] = Idle]
    BY <1>4 DEF Record
  <2> HIDE DEF new
  <2>4. attempt' \in [Ids -> Attempt \cup {NoAttempt}]
    BY <2>1, <2>2, <2>3 DEF TypeOK
  <2>5. login' \in [Logins -> Login] /\ LocalsWellFormed'
    BY <2>3
  <2> QED BY <2>4, <2>5
<1>5. ASSUME NEW r \in Logins, Clear(r)
      PROVE  TypeOK' /\ LocalsWellFormed'
  BY <1>5 DEF Clear
<1>6. ASSUME NEW r \in Logins, Crash(r)
      PROVE  TypeOK' /\ LocalsWellFormed'
  BY <1>6 DEF Crash
<1>7. ASSUME NEW lag \in 0..Window, Purge(lag)
      PROVE  TypeOK' /\ LocalsWellFormed'
  BY <1>7 DEF Purge
<1>8. CASE Tick
  <2>1. ASSUME NEW i \in Ids, Stored(i), attempt[i].age # Window
        PROVE  [attempt[i] EXCEPT !.age = @ + 1] \in Attempt
    BY <2>1 DEF Stored
  <2>2. attempt' \in [Ids -> Attempt \cup {NoAttempt}]
    BY <1>8, <2>1 DEF Tick
  <2> QED BY <1>8, <2>2 DEF Tick
<1>9. CASE UNCHANGED vars
  BY <1>9 DEF vars
<1> QED BY <1>1, <1>2, <1>3, <1>4, <1>5, <1>6, <1>7, <1>8, <1>9 DEF Next, Serve

-----------------------------------------------------------------------------
\* The reserves, statement by statement.

\* A login that counts its email passes only below the limit.
LEMMA CountByEmailKeeps ==
  ASSUME IInv, TypeOK', LocalsWellFormed',
         NEW r \in Logins, NEW e \in Emails, NEW a \in Ips \cup {NoIp},
         CountByEmail(r, e, a)
  PROVE  IInv'
<1>1. attempt' = attempt
  BY DEF CountByEmail
<1>2. /\ \A i \in Ids : Stored(i)' = Stored(i)
      /\ \A x \in Emails : ByEmail(x)' = ByEmail(x)
      /\ \A y \in Ips : ByIp(y)' = ByIp(y)
  BY <1>1 DEF Stored, ByEmail, ByIp
<1>3. CASE Cardinality(ByEmail(e)) < MaxPerEmail
  <2>1. \A y \in Ips : PassedIp(y)' \subseteq PassedIp(y)
    BY NullsAreNoValues DEF CountByEmail, IInv, TypeOK, PassedIp
  <2>2. \A x \in Emails \ {e} : PassedEmail(x)' \subseteq PassedEmail(x)
    BY DEF CountByEmail, IInv, TypeOK, PassedEmail
  <2>3. EmailReserve'
    <3> SUFFICES ASSUME NEW x \in Emails
                 PROVE  Cardinality(ByEmail(x)') + Cardinality(PassedEmail(x)') <= EmailRoom
      BY DEF EmailReserve, EmailRoom
    <3>1. CASE x = e
      <4>1. PassedEmail(e)' \subseteq Logins
        BY DEF PassedEmail
      <4> QED BY <3>1, <4>1, <1>2, <1>3, Finiteness, FinitelyManyLogins, Limits, ReservePasses
              DEF EmailRoom
    <3>2. CASE x # e
      BY <3>2, <1>2, <2>2, Finiteness, ReserveShrinks DEF IInv, EmailReserve, EmailRoom
    <3> QED BY <3>1, <3>2
  <2>4. IpReserve'
    <3> SUFFICES ASSUME NEW y \in Ips
                 PROVE  Cardinality(ByIp(y)') + Cardinality(PassedIp(y)') <= IpRoom
      BY DEF IpReserve, IpRoom
    <3> QED BY <1>2, <2>1, Finiteness, ReserveShrinks DEF IInv, IpReserve, IpRoom
  <2>5. StoredFinite'
    BY <1>2 DEF IInv, StoredFinite
  <2> QED BY <2>3, <2>4, <2>5 DEF IInv
<1>4. CASE ~ Cardinality(ByEmail(e)) < MaxPerEmail
  <2>1. \A x \in Emails : PassedEmail(x)' \subseteq PassedEmail(x)
    BY <1>4 DEF CountByEmail, IInv, TypeOK, PassedEmail
  <2>2. \A y \in Ips : PassedIp(y)' \subseteq PassedIp(y)
    BY <1>4, NullsAreNoValues DEF CountByEmail, IInv, TypeOK, PassedIp
  <2> QED BY <1>2, <2>1, <2>2, ShrinkKeeps
<1> QED BY <1>3, <1>4

\* A login that counts its address goes on only below both limits.
LEMMA CountByIpKeeps ==
  ASSUME IInv, TypeOK', LocalsWellFormed', NEW r \in Logins, CountByIp(r)
  PROVE  IInv'
<1>1. attempt' = attempt
  BY DEF CountByIp
<1>2. /\ \A i \in Ids : Stored(i)' = Stored(i)
      /\ \A x \in Emails : ByEmail(x)' = ByEmail(x)
      /\ \A y \in Ips : ByIp(y)' = ByIp(y)
  BY <1>1 DEF Stored, ByEmail, ByIp
<1>3. \A x \in Emails : PassedEmail(x)' \subseteq PassedEmail(x)
  BY NullsAreNoValues DEF CountByIp, IInv, TypeOK, Login, PassedEmail, Idle
<1>4. EmailReserve'
  <2> SUFFICES ASSUME NEW x \in Emails
               PROVE  Cardinality(ByEmail(x)') + Cardinality(PassedEmail(x)') <= EmailRoom
    BY DEF EmailReserve, EmailRoom
  <2> QED BY <1>2, <1>3, Finiteness, ReserveShrinks DEF IInv, EmailReserve, EmailRoom
<1>5. IpReserve'
  <2> SUFFICES ASSUME NEW y \in Ips
               PROVE  Cardinality(ByIp(y)') + Cardinality(PassedIp(y)') <= IpRoom
    BY DEF IpReserve, IpRoom
  <2>1. CASE PassedIp(y)' \subseteq PassedIp(y)
    BY <1>2, <2>1, Finiteness, ReserveShrinks DEF IInv, IpReserve, IpRoom
  <2>2. CASE Cardinality(ByIp(y)) < MaxPerIp
    <3>1. PassedIp(y)' \subseteq Logins
      BY DEF PassedIp
    <3> QED BY <2>2, <3>1, <1>2, Finiteness, FinitelyManyLogins, Limits, ReservePasses
            DEF IpRoom
  <2>3. \/ PassedIp(y)' \subseteq PassedIp(y)
        \/ Cardinality(ByIp(y)) < MaxPerIp
    BY NullsAreNoValues DEF CountByIp, IInv, TypeOK, Login, PassedIp, Idle
  <2> QED BY <2>1, <2>2, <2>3
<1>6. StoredFinite'
  BY <1>2 DEF IInv, StoredFinite
<1> QED BY <1>4, <1>5, <1>6 DEF IInv

\* Recording moves the login from those that passed to the rows stored.
LEMMA RecordKeeps ==
  ASSUME IInv, TypeOK', LocalsWellFormed', NEW r \in Logins, Record(r)
  PROVE  IInv'
<1> DEFINE new == [email |-> login[r].email, ip |-> login[r].ip, age |-> 0]
<1>1. /\ attempt' = [attempt EXCEPT ![FreeId] = new]
      /\ login' = [login EXCEPT ![r] = Idle]
      /\ login[r].pc = "record"
      /\ FreeId \in Ids /\ ~ Stored(FreeId)
  BY DEF Record, FreeId
<1>2. /\ \A i \in Ids : Stored(i)' => Stored(i) \/ i = FreeId
      /\ \A x \in Emails : ByEmail(x)' \subseteq ByEmail(x) \cup {FreeId}
      /\ \A x \in Emails \ {login[r].email} : ByEmail(x)' \subseteq ByEmail(x)
      /\ \A y \in Ips : ByIp(y)' \subseteq ByIp(y) \cup {FreeId}
      /\ \A y \in Ips \ {login[r].ip} : ByIp(y)' \subseteq ByIp(y)
  BY <1>1 DEF IInv, TypeOK, Stored, ByEmail, ByIp
<1>3. /\ \A x \in Emails : PassedEmail(x)' \subseteq PassedEmail(x) \ {r}
      /\ \A y \in Ips : PassedIp(y)' \subseteq PassedIp(y) \ {r}
  BY <1>1, NullsAreNoValues DEF IInv, TypeOK, PassedEmail, PassedIp, Idle
<1>4. EmailReserve'
  <2> SUFFICES ASSUME NEW x \in Emails
               PROVE  Cardinality(ByEmail(x)') + Cardinality(PassedEmail(x)') <= EmailRoom
    BY DEF EmailReserve, EmailRoom
  <2>1. CASE x = login[r].email
    <3>1. r \in PassedEmail(x)
      BY <1>1, <2>1 DEF PassedEmail
    <3>2. /\ IsFiniteSet(ByEmail(x)) /\ IsFiniteSet(PassedEmail(x)) /\ EmailRoom \in Nat
          /\ Cardinality(ByEmail(x)) + Cardinality(PassedEmail(x)) <= EmailRoom
      BY Finiteness DEF IInv, EmailReserve, EmailRoom
    <3>3. ByEmail(x)' \subseteq ByEmail(x) \cup {FreeId} /\ PassedEmail(x)' \subseteq PassedEmail(x) \ {r}
      BY <1>2, <1>3
    <3> QED BY <3>1, <3>2, <3>3, ReserveMoves
  <2>2. CASE x # login[r].email
    BY <2>2, <1>2, <1>3, Finiteness, ReserveShrinks DEF IInv, EmailReserve, EmailRoom
  <2> QED BY <2>1, <2>2
<1>5. IpReserve'
  <2> SUFFICES ASSUME NEW y \in Ips
               PROVE  Cardinality(ByIp(y)') + Cardinality(PassedIp(y)') <= IpRoom
    BY DEF IpReserve, IpRoom
  <2>1. CASE y = login[r].ip
    <3>1. r \in PassedIp(y)
      BY <1>1, <2>1 DEF PassedIp
    <3>2. /\ IsFiniteSet(ByIp(y)) /\ IsFiniteSet(PassedIp(y)) /\ IpRoom \in Nat
          /\ Cardinality(ByIp(y)) + Cardinality(PassedIp(y)) <= IpRoom
      BY Finiteness DEF IInv, IpReserve, IpRoom
    <3>3. ByIp(y)' \subseteq ByIp(y) \cup {FreeId} /\ PassedIp(y)' \subseteq PassedIp(y) \ {r}
      BY <1>2, <1>3
    <3> QED BY <3>1, <3>2, <3>3, ReserveMoves
  <2>2. CASE y # login[r].ip
    BY <2>2, <1>2, <1>3, Finiteness, ReserveShrinks DEF IInv, IpReserve, IpRoom
  <2> QED BY <2>1, <2>2
<1>6. StoredFinite'
  <2>1. {i \in Ids : Stored(i)'} \subseteq {i \in Ids : Stored(i)} \cup {FreeId}
    BY <1>2
  <2>2. IsFiniteSet({i \in Ids : Stored(i)} \cup {FreeId})
    BY FS_AddElement DEF IInv, StoredFinite
  <2> QED BY <2>1, <2>2, FS_Subset DEF StoredFinite
<1> QED BY <1>4, <1>5, <1>6 DEF IInv

-----------------------------------------------------------------------------

\* The reserve is an inductive invariant.
THEOREM ReserveInvariant == Spec => []IInv
<1>1. Init => IInv
  <2> SUFFICES ASSUME Init PROVE IInv
    OBVIOUS
  <2>1. TypeOK /\ LocalsWellFormed
    BY DEF Init, TypeOK, LocalsWellFormed, Login, Idle
  <2>2. /\ {i \in Ids : Stored(i)} = {}
        /\ \A e \in Emails : ByEmail(e) = {} /\ PassedEmail(e) = {}
        /\ \A a \in Ips : ByIp(a) = {} /\ PassedIp(a) = {}
    BY NullsAreNoValues
       DEF Init, Stored, ByEmail, ByIp, PassedEmail, PassedIp, NoAttempt, Idle
  <2>3. IsFiniteSet({}) /\ Cardinality({}) = 0
    BY FS_EmptySet
  <2>4. Cardinality(Logins) \in Nat
    BY FinitelyManyLogins, FS_CardinalityType
  <2>5. EmailReserve
    <3>1. \A e \in Emails : Cardinality(ByEmail(e)) = 0 /\ Cardinality(PassedEmail(e)) = 0
      BY <2>2, <2>3
    <3> QED BY <3>1, <2>4, Limits DEF EmailReserve
  <2>6. IpReserve
    <3>1. \A a \in Ips : Cardinality(ByIp(a)) = 0 /\ Cardinality(PassedIp(a)) = 0
      BY <2>2, <2>3
    <3> QED BY <3>1, <2>4, Limits DEF IpReserve
  <2> QED BY <2>1, <2>2, <2>3, <2>5, <2>6 DEF IInv, StoredFinite
<1>2. IInv /\ [Next]_vars => IInv'
  <2> SUFFICES ASSUME IInv, [Next]_vars PROVE IInv'
    OBVIOUS
  <2>0. TypeOK' /\ LocalsWellFormed'
    BY TypeKeeps DEF IInv
  <2>1. ASSUME NEW r \in Logins, Serve(r)
        PROVE  IInv'
    <3>1. ASSUME NEW e \in Emails, NEW a \in Ips \cup {NoIp}, CountByEmail(r, e, a)
          PROVE  IInv'
      BY <3>1, <2>0, CountByEmailKeeps
    <3>2. CASE CountByIp(r)
      BY <3>2, <2>0, CountByIpKeeps
    <3>3. ASSUME NEW matches \in BOOLEAN, Compare(r, matches)
          PROVE  IInv'
      <4>1. attempt' = attempt
        BY <3>3 DEF Compare
      <4>2. \A x \in Emails : PassedEmail(x)' \subseteq PassedEmail(x)
        BY <3>3 DEF Compare, IInv, TypeOK, Login, PassedEmail
      <4>3. \A y \in Ips : PassedIp(y)' \subseteq PassedIp(y)
        BY <3>3 DEF Compare, IInv, TypeOK, Login, PassedIp
      <4> QED BY <4>1, <4>2, <4>3, <2>0, ShrinkKeeps DEF Stored, ByEmail, ByIp
    <3>4. CASE Record(r)
      BY <3>4, <2>0, RecordKeeps
    <3>5. CASE Clear(r) \/ Crash(r)
      <4>1. login' = [login EXCEPT ![r] = Idle]
        BY <3>5 DEF Clear, Crash
      <4>2. \A i \in Ids : attempt'[i] \in {attempt[i], NoAttempt}
        BY <3>5 DEF Clear, Crash
      <4>3. /\ \A i \in Ids : Stored(i)' => Stored(i)
            /\ \A x \in Emails : ByEmail(x)' \subseteq ByEmail(x)
            /\ \A y \in Ips : ByIp(y)' \subseteq ByIp(y)
        BY <4>2, NullsAreNoValues DEF Stored, ByEmail, ByIp, NoAttempt
      <4>4. /\ \A x \in Emails : PassedEmail(x)' \subseteq PassedEmail(x)
            /\ \A y \in Ips : PassedIp(y)' \subseteq PassedIp(y)
        BY <4>1, NullsAreNoValues DEF IInv, TypeOK, PassedEmail, PassedIp, Idle
      <4> QED BY <4>3, <4>4, <2>0, ShrinkKeeps
    <3> QED BY <2>1, <3>1, <3>2, <3>3, <3>4, <3>5 DEF Serve
  <2>2. ASSUME \/ \E lag \in 0..Window : Purge(lag)
               \/ Tick
               \/ UNCHANGED vars
        PROVE  IInv'
    <3>1. login' = login
      BY <2>2 DEF Purge, Tick, vars
    <3>2. \A i \in Ids : \/ attempt'[i] = NoAttempt
                         \/ /\ attempt'[i].email = attempt[i].email
                            /\ attempt'[i].ip = attempt[i].ip
      BY <2>2 DEF Purge, Tick, vars, IInv, TypeOK, Attempt, NoAttempt
    <3>3. /\ \A i \in Ids : Stored(i)' => Stored(i)
          /\ \A x \in Emails : ByEmail(x)' \subseteq ByEmail(x)
          /\ \A y \in Ips : ByIp(y)' \subseteq ByIp(y)
      BY <3>2, NullsAreNoValues DEF Stored, ByEmail, ByIp, NoAttempt
    <3>4. /\ \A x \in Emails : PassedEmail(x)' \subseteq PassedEmail(x)
          /\ \A y \in Ips : PassedIp(y)' \subseteq PassedIp(y)
      BY <3>1 DEF PassedEmail, PassedIp
    <3> QED BY <3>3, <3>4, <2>0, ShrinkKeeps
  <2> QED BY <2>1, <2>2 DEF Next
<1> QED BY <1>1, <1>2, PTL DEF Spec

\* The table and the logins' locals are always well typed.
THEOREM TypeCorrect == Spec => []TypeOK
<1>1. IInv => TypeOK
  BY DEF IInv
<1> QED BY <1>1, ReserveInvariant, PTL

\* However logins interleave between counting and recording, an email's
\* failures in the window exceed the limit by less than the concurrent logins.
THEOREM EmailBounded == Spec => []EmailOvershootBounded
<1>1. IInv => EmailOvershootBounded
  <2> SUFFICES ASSUME IInv, NEW e \in Emails
               PROVE  Cardinality(ByEmail(e)) <= EmailRoom
    BY DEF EmailOvershootBounded, EmailRoom
  <2>1. Cardinality(ByEmail(e)) + Cardinality(PassedEmail(e)) <= EmailRoom
    BY DEF IInv, EmailReserve, EmailRoom
  <2>2. Cardinality(ByEmail(e)) \in Nat /\ Cardinality(PassedEmail(e)) \in Nat
    BY Finiteness, FS_CardinalityType
  <2> QED BY <2>1, <2>2, Finiteness
<1> QED BY <1>1, ReserveInvariant, PTL

\* The same for the failures from one address.
THEOREM IpBounded == Spec => []IpOvershootBounded
<1>1. IInv => IpOvershootBounded
  <2> SUFFICES ASSUME IInv, NEW a \in Ips
               PROVE  Cardinality(ByIp(a)) <= IpRoom
    BY DEF IpOvershootBounded, IpRoom
  <2>1. Cardinality(ByIp(a)) + Cardinality(PassedIp(a)) <= IpRoom
    BY DEF IInv, IpReserve, IpRoom
  <2>2. Cardinality(ByIp(a)) \in Nat /\ Cardinality(PassedIp(a)) \in Nat
    BY Finiteness, FS_CardinalityType
  <2> QED BY <2>1, <2>2, Finiteness
<1> QED BY <1>1, ReserveInvariant, PTL

-----------------------------------------------------------------------------
\* Blocks.

\* A failure is only added by a login that was let through, and none gets younger.
LEMMA RowsMove ==
  ASSUME IInv, [Next]_vars
  PROVE  /\ \A e \in Emails :
              PassedEmail(e) = {} => OnlyAges(ByEmail(e), ByEmail(e)')
         /\ \A a \in Ips :
              PassedIp(a) = {} => OnlyAges(ByIp(a), ByIp(a)')
<1> DEFINE Ages(i) ==
      \/ attempt'[i] = attempt[i] \/ attempt'[i] = NoAttempt
      \/ /\ attempt'[i].email = attempt[i].email /\ attempt'[i].ip = attempt[i].ip
         /\ attempt'[i].age >= attempt[i].age
<1>1. attempt \in [Ids -> Attempt \cup {NoAttempt}] /\ \A i \in Ids : attempt[i].age \in Nat
  BY Limits DEF IInv, TypeOK, Attempt, NoAttempt
<1>2. ASSUME NEW i \in Ids, Ages(i)
      PROVE  /\ \A e \in Emails : i \in ByEmail(e)' =>
                  i \in ByEmail(e) /\ attempt'[i].age >= attempt[i].age
             /\ \A a \in Ips : i \in ByIp(a)' =>
                  i \in ByIp(a) /\ attempt'[i].age >= attempt[i].age
  BY <1>1, <1>2, NullsAreNoValues DEF ByEmail, ByIp, Stored, NoAttempt
<1>3. CASE \A i \in Ids : Ages(i)
  <2>1. \A e \in Emails : ByEmail(e)' \subseteq Ids
    BY DEF ByEmail
  <2>2. \A a \in Ips : ByIp(a)' \subseteq Ids
    BY DEF ByIp
  <2> HIDE DEF Ages
  <2> QED BY <1>2, <1>3, <2>1, <2>2 DEF OnlyAges
<1>4. ASSUME NEW r \in Logins, Record(r)
      PROVE  /\ \A e \in Emails :
                  PassedEmail(e) = {} => OnlyAges(ByEmail(e), ByEmail(e)')
             /\ \A a \in Ips :
                  PassedIp(a) = {} => OnlyAges(ByIp(a), ByIp(a)')
  <2>1. login[r].pc = "record" /\ FreeId \in Ids /\ ~ Stored(FreeId)
    BY <1>4 DEF Record, FreeId
  <2>2. \A i \in Ids : attempt'[i] = IF i = FreeId
                         THEN [email |-> login[r].email, ip |-> login[r].ip, age |-> 0]
                         ELSE attempt[i]
    BY <1>1, <1>4, <2>1 DEF Record
  <2>3. ASSUME NEW e \in Emails, PassedEmail(e) = {}
        PROVE  OnlyAges(ByEmail(e), ByEmail(e)')
    <3>1. login[r].email # e
      BY <2>1, <2>3 DEF PassedEmail
    <3> QED BY <1>1, <2>2, <3>1 DEF OnlyAges, ByEmail
  <2>4. ASSUME NEW a \in Ips, PassedIp(a) = {}
        PROVE  OnlyAges(ByIp(a), ByIp(a)')
    <3>1. login[r].ip # a
      BY <2>1, <2>4 DEF PassedIp
    <3> QED BY <1>1, <2>2, <3>1 DEF OnlyAges, ByIp, Stored
  <2> QED BY <2>3, <2>4
<1>5. CASE Tick
  <2>1. \A i \in Ids : \/ attempt'[i] = NoAttempt
                       \/ Stored(i) /\ attempt'[i] = [attempt[i] EXCEPT !.age = @ + 1]
    BY <1>5 DEF Tick
  <2>2. ASSUME NEW i \in Ids, Stored(i), attempt'[i] = [attempt[i] EXCEPT !.age = @ + 1]
        PROVE  Ages(i)
    <3>1. attempt[i] \in Attempt /\ attempt[i].age \in Nat
      BY <1>1, <2>2 DEF Stored, NoAttempt
    <3> QED BY <2>2, <3>1 DEF Attempt
  <2> QED BY <1>3, <2>1, <2>2
<1>6. \/ \E r \in Logins : Record(r)
      \/ Tick
      \/ \A i \in Ids : attempt'[i] = attempt[i] \/ attempt'[i] = NoAttempt
  BY DEF Next, Serve, vars, CountByEmail, CountByIp, Compare, Clear, Crash, Purge
<1> QED BY <1>3, <1>4, <1>5, <1>6

\* A login is only let through by counts below the limits.
LEMMA PassedMove ==
  ASSUME IInv, [Next]_vars
  PROVE  /\ \A e \in Emails : EmailBlocked(e) => PassedEmail(e)' \subseteq PassedEmail(e)
         /\ \A a \in Ips : IpBlocked(a) => PassedIp(a)' \subseteq PassedIp(a)
<1>1. /\ login \in [Logins -> Login] /\ \A e \in Emails : Cardinality(ByEmail(e)) \in Nat
      /\ \A a \in Ips : Cardinality(ByIp(a)) \in Nat
      /\ MaxPerEmail \in Nat /\ MaxPerIp \in Nat
  BY Finiteness, FS_CardinalityType, Limits DEF IInv, TypeOK
<1> USE NullsAreNoValues DEF EmailBlocked, IpBlocked
<1>2. ASSUME NEW r \in Logins, NEW e \in Emails, NEW a \in Ips \cup {NoIp}, CountByEmail(r, e, a)
      PROVE  /\ \A x \in Emails : EmailBlocked(x) => PassedEmail(x)' \subseteq PassedEmail(x)
             /\ \A y \in Ips : PassedIp(y)' \subseteq PassedIp(y)
  <2>1. \A x \in Emails : EmailBlocked(x) => PassedEmail(x)' \subseteq PassedEmail(x)
    BY <1>1, <1>2 DEF CountByEmail, PassedEmail
  <2>2. \A y \in Ips : PassedIp(y)' \subseteq PassedIp(y)
    BY <1>1, <1>2 DEF CountByEmail, PassedIp
  <2> QED BY <2>1, <2>2
<1>3. ASSUME NEW r \in Logins, CountByIp(r)
      PROVE  /\ \A x \in Emails : PassedEmail(x)' \subseteq PassedEmail(x)
             /\ \A y \in Ips : IpBlocked(y) => PassedIp(y)' \subseteq PassedIp(y)
  <2>1. \A x \in Emails : PassedEmail(x)' \subseteq PassedEmail(x)
    BY <1>1, <1>3 DEF CountByIp, PassedEmail, Login, Idle
  <2>2. \A y \in Ips : IpBlocked(y) => PassedIp(y)' \subseteq PassedIp(y)
    BY <1>1, <1>3 DEF CountByIp, PassedIp, Login, Idle
  <2> QED BY <2>1, <2>2
<1>4. ASSUME NEW r \in Logins,
             \/ \E matches \in BOOLEAN : Compare(r, matches)
             \/ Record(r) \/ Clear(r) \/ Crash(r)
      PROVE  /\ \A x \in Emails : PassedEmail(x)' \subseteq PassedEmail(x)
             /\ \A y \in Ips : PassedIp(y)' \subseteq PassedIp(y)
  <2>1. \/ login' = [login EXCEPT ![r] = Idle]
        \/ login[r].pc = "compare" /\ login' = [login EXCEPT ![r].pc = "clear"]
        \/ login[r].pc = "compare" /\ login' = [login EXCEPT ![r].pc = "record"]
    BY <1>4 DEF Compare, Record, Clear, Crash
  <2>2. \A x \in Emails : PassedEmail(x)' \subseteq PassedEmail(x)
    BY <1>1, <2>1 DEF PassedEmail, Login, Idle
  <2>3. \A y \in Ips : PassedIp(y)' \subseteq PassedIp(y)
    BY <1>1, <2>1 DEF PassedIp, Login, Idle
  <2> QED BY <2>2, <2>3
<1>5. CASE login' = login
  BY <1>5 DEF PassedEmail, PassedIp
<1>6. (\E lag \in 0..Window : Purge(lag)) \/ Tick \/ UNCHANGED vars => login' = login
  BY DEF Purge, Tick, vars
<1> QED BY <1>2, <1>3, <1>4, <1>5, <1>6 DEF Next, Serve

\* Whatever is tried, a block that no login is still to pass only gets older.
THEOREM BlockOnlyAges == Spec => BlockIsNotProlonged
<1> DEFINE Ages ==
      /\ \A e \in Emails : EmailBlocked(e) /\ PassedEmail(e) = {} =>
           PassedEmail(e)' = {} /\ OnlyAges(ByEmail(e), ByEmail(e)')
      /\ \A a \in Ips : IpBlocked(a) /\ PassedIp(a) = {} =>
           PassedIp(a)' = {} /\ OnlyAges(ByIp(a), ByIp(a)')
<1>1. IInv /\ [Next]_vars => [Ages]_vars
  BY RowsMove, PassedMove
<1> QED BY <1>1, ReserveInvariant, PTL DEF Spec, BlockIsNotProlonged

=============================================================================
