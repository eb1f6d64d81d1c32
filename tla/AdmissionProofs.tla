---------------------------- MODULE AdmissionProofs ----------------------------
(***************************************************************************)
(* Admission, for every limit and window, however many requests, tokens    *)
(* and connections: type correctness, the rate limit, that only good       *)
(* tokens let a request through, and that every connection is given back.  *)
(***************************************************************************)
EXTENDS Admission, FiniteSetTheorems, TLAPS

Requested == [phase : Phase, cred : Credential, fresh : BOOLEAN, may : BOOLEAN]

-----------------------------------------------------------------------------
(* Type correctness *)

LEMMA SeqElements ==
  ASSUME NEW S, NEW q \in Seq(S)
  PROVE  Len(q) \in Nat /\ \A i \in 1..Len(q) : q[i] \in S
OBVIOUS

LEMMA SequenceEnd ==
  ASSUME NEW S, NEW q \in Seq(S), NEW n \in 0..Len(q)
  PROVE  /\ SubSeq(q, n + 1, Len(q)) \in Seq(S)
         /\ Len(SubSeq(q, n + 1, Len(q))) = Len(q) - n
         /\ \A i \in 1..(Len(q) - n) : SubSeq(q, n + 1, Len(q))[i] = q[n + i]
<1>1. Len(q) \in Nat /\ n \in Nat
  OBVIOUS
<1>2. SubSeq(q, n + 1, Len(q)) \in Seq(S)
  BY <1>1
<1>3. Len(SubSeq(q, n + 1, Len(q))) = Len(q) - n
  BY <1>1
<1>4. \A i \in 1..(Len(q) - n) : SubSeq(q, n + 1, Len(q))[i] = q[n + i]
  BY <1>1
<1>5. QED  BY <1>2, <1>3, <1>4

(* What is left of a log is its end.                                       *)
LEMMA PoppedType ==
  ASSUME NEW c \in Client, log[c] \in Seq(0..End), NEW recent \in Popped(c)
  PROVE  /\ recent \in Seq(0..End)
         /\ \E n \in 0..Len(log[c]) :
              /\ Len(recent) = Len(log[c]) - n
              /\ \A i \in 1..Len(recent) : recent[i] = log[c][n + i]
              /\ \A i \in 1..n : ~Kept(log[c][i])
<1>1. PICK n \in 0..Len(log[c]) :
        /\ recent = SubSeq(log[c], n + 1, Len(log[c]))
        /\ \A i \in 1..n : ~Kept(log[c][i])
  BY DEF Popped
<1>2. /\ recent \in Seq(0..End) /\ Len(recent) = Len(log[c]) - n
      /\ \A i \in 1..Len(recent) : recent[i] = log[c][n + i]
  BY <1>1, SequenceEnd
<1>3. QED  BY <1>1, <1>2

LEMMA StepType ==
  ASSUME req \in [Request -> Requested], NEW r \in Request, NEW phase \in Phase,
         Goes(r, phase) \/ Past(r, phase)
  PROVE  /\ req' \in [Request -> Requested]
         /\ req'[r].phase = phase
         /\ \A x \in Request \ {r} : req'[x] = req[x]
<1>1. New \in Requested
  BY DEF New, Requested, Phase, Credential
<1>2. [req[r] EXCEPT !.phase = phase] \in Requested
  BY DEF Requested
<1>3. [New EXCEPT !.phase = phase] \in Requested
  BY <1>1 DEF Requested
<1>4. [req[r] EXCEPT !.phase = phase].phase = phase /\ [New EXCEPT !.phase = phase].phase = phase
  BY <1>1 DEF Requested
<1>5. CASE Goes(r, phase)
  BY <1>2, <1>4, <1>5 DEF Goes
<1>6. CASE Past(r, phase)
  BY <1>3, <1>4, <1>6 DEF Past
<1>7. QED  BY <1>5, <1>6

(* The variables other than the clock and the logs.                        *)
LEMMA ProgressType ==
  ASSUME TypeOK, NEW r \in Request, Progress(r)
  PROVE  /\ UNCHANGED <<Limiter, Tables>>
         /\ \E phase \in Phase : Goes(r, phase) \/ Past(r, phase)
         /\ held' = held \/ held' = held \ {r} \/ held' = held \cup {r}
         /\ loop' = loop \/ loop' = r \/ loop' = 0
BY DEF Progress, Check, LookUp, ReadRole, StarveOnLoop, Begin, Query, Finish, Commit, Refresh,
       Probe, StarveInThread, Close, Starves, Connects, Phase, InThread

(* Every variable keeps to its type (security.py, dependencies.py).        *)
THEOREM AdmissionTypeCorrect == Spec => []TypeOK
<1> USE AdmissionAssumption
<1>1. Init => TypeOK
  BY DEF Init, TypeOK, New, NoSession, Phase, Credential
<1>2. TypeOK /\ [Next]_vars => TypeOK'
  <2> SUFFICES ASSUME TypeOK, [Next]_vars PROVE TypeOK'
    OBVIOUS
  <2> USE DEF TypeOK, Limiter, Tables
  <2>1. CASE Tick
    BY <2>1 DEF Tick
  <2>2. ASSUME NEW r \in Request, NEW c \in Client, NEW cred \in Credential, Enter(r, c, cred)
        PROVE  TypeOK'
    <3>1. PICK recent \in Popped(c) :
            \/ /\ log' = [log EXCEPT ![c] = Append(recent, now)]
               /\ admitted' = [admitted EXCEPT ![c] = Append(@, now)]
               /\ req' = [req EXCEPT ![r] = Coming(cred)]
            \/ /\ log' = [log EXCEPT ![c] = recent]
               /\ Past(r, "answered")
               /\ UNCHANGED admitted
      BY <2>2 DEF Enter
    <3>2. recent \in Seq(0..End)
      BY <3>1, PoppedType
    <3>3. Append(recent, now) \in Seq(0..End) /\ Append(admitted[c], now) \in Seq(0..End)
      BY <3>2
    <3>4. Coming(cred) \in Requested
      BY DEF Coming, Requested, Phase
    <3>5. Past(r, "answered") => req' \in [Request -> Requested]
      BY StepType DEF Requested, Phase
    <3>6. log' \in [Client -> Seq(0..End)] /\ admitted' \in [Client -> Seq(0..End)]
      <4>1. ASSUME NEW L \in Seq(0..End), log' = [log EXCEPT ![c] = L]
            PROVE  log' \in [Client -> Seq(0..End)]
        BY <4>1
      <4>2. ASSUME NEW A \in Seq(0..End), admitted' = [admitted EXCEPT ![c] = A]
            PROVE  admitted' \in [Client -> Seq(0..End)]
        BY <4>2
      <4>3. QED  BY <3>1, <3>2, <3>3, <4>1, <4>2
    <3>7. req' \in [Request -> Requested]
      BY <3>1, <3>4, <3>5 DEF Requested
    <3>8. QED  BY <2>2, <3>6, <3>7 DEF Enter, Requested
  <2>3. ASSUME NEW r \in Request, Progress(r) PROVE TypeOK'
    <3>1. req' \in [Request -> Requested]
      BY <2>3, ProgressType, StepType DEF Requested
    <3>2. QED  BY <2>3, <3>1, ProgressType DEF Requested
  <2>4. ASSUME NEW s \in Session, NEW u \in User, Login(s, u) PROVE TypeOK'
    <3>1. [user |-> u, expires |-> now + Timeout] \in [user : User \cup {Nobody}, expires : Nat]
      OBVIOUS
    <3>2. QED  BY <2>4, <3>1 DEF Login
  <2>5. ASSUME NEW t \in Session \cup ApiKey, Revoke(t) PROVE TypeOK'
    BY <2>5 DEF Revoke
  <2>6. ASSUME NEW u \in User, ChangeUser(u) PROVE TypeOK'
    <3>1. \A r \in Request : [req[r] EXCEPT !.may = TRUE] \in Requested
      BY DEF Requested
    <3>2. req' \in [Request -> Requested]
      BY <2>6, <3>1 DEF ChangeUser, Requested
    <3>3. QED  BY <2>6, <3>2 DEF ChangeUser, Requested
  <2>7. CASE UNCHANGED vars
    BY <2>7 DEF vars
  <2>8. QED  BY <2>1, <2>2, <2>3, <2>4, <2>5, <2>6, <2>7 DEF Next
<1>3. QED  BY <1>1, <1>2, PTL DEF Spec

-----------------------------------------------------------------------------
(* The rate limit *)

(* The log is what is recent of all that was let in, and what was popped   *)
(* is past the window.                                                     *)
ClientRate(c) ==
  LET A == admitted[c]
      L == log[c]
  IN  /\ Len(L) <= Limit /\ Len(L) <= Len(A)
      /\ \A i \in 1..Len(L) : L[i] = A[Len(A) - Len(L) + i]
      /\ \A i \in 1..(Len(A) - Len(L)) : now - A[i] > Window
      /\ \A i \in 1..(Len(A) - Limit) : A[i + Limit] - A[i] > Window

RateInv == \A c \in Client : ClientRate(c)

(* What is popped from a log is past the window.                           *)
LEMMA PoppedRate ==
  ASSUME TypeOK, NEW c \in Client, ClientRate(c), NEW recent \in Popped(c)
  PROVE  /\ recent \in Seq(0..End) /\ Len(recent) <= Len(log[c])
         /\ \A i \in 1..Len(recent) :
              recent[i] = admitted[c][Len(admitted[c]) - Len(recent) + i]
         /\ \A i \in 1..(Len(admitted[c]) - Len(recent)) : now - admitted[c][i] > Window
<1> DEFINE A == admitted[c]
           L == log[c]
<1>1. A \in Seq(0..End) /\ L \in Seq(0..End) /\ now \in Nat /\ Window \in Nat
  BY AdmissionAssumption DEF TypeOK
<1>2. Len(A) \in Nat /\ Len(L) \in Nat /\ \A i \in 1..Len(A) : A[i] \in 0..End
  <2> HIDE DEF A, L
  <2>1. QED  BY <1>1, SeqElements
<1>02. Len(L) <= Len(A)
  BY DEF ClientRate
<1>3. PICK n \in 0..Len(L) :
        /\ Len(recent) = Len(L) - n
        /\ \A i \in 1..Len(recent) : recent[i] = L[n + i]
        /\ \A i \in 1..n : ~Kept(L[i])
  BY <1>1, PoppedType
<1>4. recent \in Seq(0..End)
  BY <1>1, PoppedType
<1>5. \A i \in 1..Len(L) : L[i] = A[Len(A) - Len(L) + i]
  BY DEF ClientRate
<1>6. \A i \in 1..(Len(A) - Len(L)) : now - A[i] > Window
  BY DEF ClientRate
<1>06. Len(recent) \in Nat
  BY <1>4
<1> HIDE DEF A, L
<1>7. \A i \in 1..Len(recent) : recent[i] = A[Len(A) - Len(recent) + i]
  BY <1>2, <1>02, <1>3, <1>5, <1>06
<1>8. ASSUME NEW i \in 1..(Len(A) - Len(recent)) PROVE now - A[i] > Window
  <2>1. CASE i <= Len(A) - Len(L)
    BY <1>2, <1>02, <1>3, <1>6, <1>06, <2>1
  <2>2. CASE i > Len(A) - Len(L)
    <3> DEFINE j == i - (Len(A) - Len(L))
    <3>1. j \in 1..n /\ j \in 1..Len(L) /\ i = Len(A) - Len(L) + j /\ i \in 1..Len(A)
      BY <1>2, <1>02, <1>3, <1>06, <2>2
    <3> HIDE DEF j
    <3>2. ~Kept(L[j]) /\ L[j] = A[i]
      BY <1>3, <1>5, <3>1
    <3>3. A[i] \in 0..End
      BY <1>2, <3>1
    <3>4. QED  BY <1>1, <3>2, <3>3, AdmissionAssumption DEF Kept
  <2>3. QED  BY <1>2, <1>02, <1>06, <2>1, <2>2
<1>9. Len(recent) <= Len(L)
  BY <1>2, <1>3
<1>10. QED  BY <1>4, <1>7, <1>8, <1>9 DEF A, L

LEMMA RateInvariant == Spec => []RateInv
<1> USE AdmissionAssumption
<1>1. Init => RateInv
  BY DEF Init, RateInv, ClientRate
<1>2. TypeOK /\ RateInv /\ [Next]_vars => RateInv'
  <2> SUFFICES ASSUME TypeOK, RateInv, [Next]_vars, NEW c \in Client PROVE ClientRate(c)'
    BY DEF RateInv
  <2> DEFINE A == admitted[c]
             L == log[c]
  <2>1. ClientRate(c)
    BY DEF RateInv
  <2>2. A \in Seq(0..End) /\ now \in Nat /\ Window \in Nat /\ Limit \in Nat \ {0}
    BY DEF TypeOK
  <2>3. Len(A) \in Nat /\ \A i \in 1..Len(A) : A[i] \in 0..End
    <3> HIDE DEF A
    <3>1. QED  BY <2>2, SeqElements
  <2>4. CASE UNCHANGED Limiter
    BY <2>1, <2>4 DEF Limiter, ClientRate
  <2>5. CASE Tick
    <3>1. now' = now + 1 /\ log' = log /\ admitted' = admitted
      BY <2>5 DEF Tick
    <3>2. \A i \in 1..(Len(A) - Len(L)) : now - A[i] > Window
      BY <2>1 DEF ClientRate
    <3>3. L \in Seq(0..End) /\ Len(L) \in Nat
      BY DEF TypeOK
    <3>4. \A i \in 1..(Len(A) - Len(L)) : now' - A[i] > Window
      <4> HIDE DEF A, L
      <4>1. QED  BY <2>2, <2>3, <3>1, <3>2, <3>3
    <3>5. QED  BY <2>1, <3>1, <3>4 DEF ClientRate
  <2>6. ASSUME NEW r \in Request, NEW d \in Client, NEW cred \in Credential,
               Enter(r, d, cred)
        PROVE  ClientRate(c)'
    <3>1. PICK recent \in Popped(d) :
            \/ /\ Len(recent) < Limit
               /\ log' = [log EXCEPT ![d] = Append(recent, now)]
               /\ admitted' = [admitted EXCEPT ![d] = Append(@, now)]
            \/ /\ Len(recent) >= Limit
               /\ log' = [log EXCEPT ![d] = recent]
               /\ UNCHANGED admitted
      BY <2>6 DEF Enter
    <3>2. now' = now
      BY <2>6 DEF Enter
    <3>3. CASE d # c
      <4>1. log'[c] = L /\ admitted'[c] = A
        BY <3>1, <3>3 DEF TypeOK
      <4>2. QED  BY <2>1, <3>2, <4>1 DEF ClientRate
    <3>4. CASE d = c
      <4>1. /\ recent \in Seq(0..End) /\ Len(recent) <= Len(L)
            /\ \A i \in 1..Len(recent) : recent[i] = A[Len(A) - Len(recent) + i]
            /\ \A i \in 1..(Len(A) - Len(recent)) : now - A[i] > Window
        BY <2>1, <3>4, PoppedRate
      <4>2. Len(L) <= Limit /\ Len(L) <= Len(A)
            /\ \A i \in 1..(Len(A) - Limit) : A[i + Limit] - A[i] > Window
        BY <2>1 DEF ClientRate
      <4>3. Len(recent) \in Nat /\ Len(L) \in Nat
        BY <4>1 DEF TypeOK
      <4>4. CASE log' = [log EXCEPT ![c] = recent] /\ UNCHANGED admitted
        <5>1. log'[c] = recent /\ admitted'[c] = A
          BY <4>4 DEF TypeOK
        <5>2. Len(recent) <= Limit /\ Len(recent) <= Len(A)
          BY <2>3, <4>1, <4>2, <4>3
        <5>3. QED  BY <3>2, <4>1, <4>2, <5>1, <5>2 DEF ClientRate
      <4>5. CASE /\ Len(recent) < Limit
                 /\ log' = [log EXCEPT ![c] = Append(recent, now)]
                 /\ admitted' = [admitted EXCEPT ![c] = Append(A, now)]
        <5> DEFINE B == Append(A, now)
                   M == Append(recent, now)
        <5>1. log'[c] = M /\ admitted'[c] = B
          BY <4>5 DEF TypeOK
        <5> HIDE DEF A, L
        <5>2. /\ Len(B) = Len(A) + 1 /\ B[Len(A) + 1] = now
              /\ \A i \in 1..Len(A) : B[i] = A[i]
          BY <2>2
        <5>3. /\ Len(M) = Len(recent) + 1 /\ M[Len(recent) + 1] = now
              /\ \A i \in 1..Len(recent) : M[i] = recent[i]
          BY <2>2, <4>1
        <5> HIDE DEF B, M
        <5>4. Len(recent) < Limit /\ Len(A) \in Nat /\ Limit \in Nat /\ now \in Nat /\ Window \in Nat
          BY <2>2, <2>3, <4>5
        <5>5. Len(M) <= Limit /\ Len(M) <= Len(B) /\ Len(B) - Len(M) = Len(A) - Len(recent)
          BY <4>1, <4>2, <4>3, <5>2, <5>3, <5>4
        <5>6. ASSUME NEW i \in 1..Len(M) PROVE M[i] = B[Len(B) - Len(M) + i]
          <6>1. CASE i = Len(recent) + 1
            <7>1. Len(B) - Len(M) + i = Len(A) + 1
              BY <4>3, <5>4, <5>5, <6>1
            <7>2. QED  BY <5>2, <5>3, <6>1, <7>1
          <6>2. CASE i # Len(recent) + 1
            <7>1. i \in 1..Len(recent)
              BY <4>3, <5>3, <6>2
            <7>2. Len(A) - Len(recent) + i \in 1..Len(A)
              BY <4>1, <4>2, <4>3, <5>4, <7>1
            <7>3. B[Len(A) - Len(recent) + i] = A[Len(A) - Len(recent) + i]
              BY <5>2, <7>2
            <7>4. QED  BY <4>1, <5>3, <5>5, <7>1, <7>3
          <6>3. QED  BY <6>1, <6>2
        <5>7. ASSUME NEW i \in 1..(Len(B) - Len(M)) PROVE now - B[i] > Window
          <6>1. i \in 1..(Len(A) - Len(recent)) /\ i \in 1..Len(A)
            BY <4>3, <5>4, <5>5
          <6>2. QED  BY <4>1, <5>2, <6>1
        <5>8. ASSUME NEW i \in 1..(Len(B) - Limit) PROVE B[i + Limit] - B[i] > Window
          <6>1. CASE i <= Len(A) - Limit
            <7>1. i \in 1..(Len(A) - Limit) /\ i \in 1..Len(A) /\ i + Limit \in 1..Len(A)
              BY <5>4, <6>1
            <7>2. QED  BY <4>2, <5>2, <7>1
          <6>2. CASE i = Len(A) - Limit + 1
            <7>1. i \in 1..(Len(A) - Len(recent)) /\ i \in 1..Len(A) /\ i + Limit = Len(A) + 1
              BY <2>2, <4>3, <5>4, <6>2
            <7>2. B[i] = A[i] /\ B[i + Limit] = now
              BY <5>2, <7>1
            <7>3. QED  BY <4>1, <7>1, <7>2
          <6>3. QED  BY <5>2, <5>4, <6>1, <6>2
        <5>9. QED  BY <3>2, <5>1, <5>5, <5>6, <5>7, <5>8 DEF ClientRate
      <4>6. QED  BY <3>1, <3>4, <4>4, <4>5
    <3>5. QED  BY <3>3, <3>4
  <2>7. ASSUME NEW r \in Request, Progress(r) PROVE UNCHANGED Limiter
    BY <2>7, ProgressType
  <2>8. QED
    BY <2>4, <2>5, <2>6, <2>7 DEF Next, Login, Revoke, ChangeUser, vars, Limiter
<1>3. QED  BY <1>1, <1>2, AdmissionTypeCorrect, PTL DEF Spec

(* No client has more than Limit requests let in within any Window         *)
(* (observability_middleware).                                             *)
THEOREM RateHeld == Spec => []WithinRate
<1>1. RateInv => WithinRate
  BY DEF RateInv, ClientRate, WithinRate
<1>2. QED  BY <1>1, RateInvariant, PTL

-----------------------------------------------------------------------------
(* Tokens *)

Waiting == {"entered", "checking", "known", "ready"}

(* A token that can be used now could be used when it came, since nothing  *)
(* revives it, and one permitted now has been permitted since it came.     *)
TokenGood(r) ==
  LET t == req[r].cred
  IN  IF req[r].phase \notin Waiting THEN t = Operator
      ELSE t # Operator =>
             /\ t \in Session => session[t] # NoSession
             /\ Usable(t) \/ req[r].phase \in {"known", "ready"} => req[r].fresh
             /\ Permitted(t) \/ req[r].phase = "ready" => req[r].may

TokenInv == \A r \in Request : TokenGood(r)

LEMMA TokenInvariant == Spec => []TokenInv
<1> USE AdmissionAssumption
<1>1. Init => TokenInv
  BY DEF Init, TokenInv, TokenGood, Waiting, New
<1>2. TypeOK /\ TypeOK' /\ TokenInv /\ [Next]_vars => TokenInv'
  <2> SUFFICES ASSUME TypeOK, TypeOK', TokenInv, [Next]_vars, NEW x \in Request
               PROVE  TokenGood(x)'
    BY DEF TokenInv
  <2>1. TokenGood(x)
    BY DEF TokenInv
  <2>2. req \in [Request -> Requested] /\ req' \in [Request -> Requested]
    BY DEF TypeOK, Requested
  <2>3. CASE Tick
    <3>1. now \in Nat /\ now' = now + 1 /\ \A s \in Session : session[s].expires \in Nat
      BY <2>3 DEF Tick, TypeOK
    <3>2. \A t \in Credential : (Usable(t)' => Usable(t)) /\ (Permitted(t)' => Permitted(t))
      BY <2>3, <3>1 DEF Tick, Tables, Usable, Permitted
    <3>3. req[x].cred \in Credential
      BY <2>2 DEF Requested
    <3>4. QED  BY <2>1, <2>3, <3>2, <3>3 DEF Tick, Tables, TokenGood, Usable, Permitted
  <2>4. ASSUME NEW r \in Request, NEW c \in Client, NEW cred \in Credential, Enter(r, c, cred)
        PROVE  TokenGood(x)'
    <3>1. now' = now /\ UNCHANGED Tables /\ (cred \in Session => session[cred] # NoSession)
          /\ \/ req' = [req EXCEPT ![r] = Coming(cred)]
             \/ Past(r, "answered")
      BY <2>4 DEF Enter
    <3>2. CASE x # r
      <4>1. req'[x] = req[x]
        BY <2>2, <3>1, <3>2 DEF Past
      <4>2. QED  BY <2>1, <3>1, <4>1 DEF TokenGood, Usable, Permitted, Tables
    <3>3. CASE x = r /\ req' = [req EXCEPT ![r] = Coming(cred)]
      <4>1. /\ req'[x].phase = "entered" /\ req'[x].cred = cred
            /\ Usable(cred) => req'[x].fresh
            /\ Permitted(cred) => req'[x].may
        BY <2>2, <3>3 DEF Coming, Usable, Permitted
      <4>2. QED  BY <3>1, <4>1 DEF TokenGood, Usable, Permitted, Tables, Waiting
    <3>4. CASE x = r /\ Past(r, "answered")
      BY <2>2, <3>4 DEF Past, New, TokenGood, Waiting
    <3>5. QED  BY <3>1, <3>2, <3>3, <3>4
  <2>5. ASSUME NEW r \in Request, Progress(r) PROVE TokenGood(x)'
    <3>1. now' = now /\ UNCHANGED Tables
      BY <2>5, ProgressType DEF Limiter
    <3>2. CASE x # r
      <4>1. req'[x] = req[x]
        BY <2>2, <2>5, <3>2, ProgressType DEF Goes, Past
      <4>2. QED  BY <2>1, <3>1, <4>1 DEF TokenGood, Usable, Permitted, Tables
    <3>3. CASE x = r /\ \E phase \in Phase \ Waiting : Past(r, phase)
      BY <2>2, <3>3 DEF Past, New, TokenGood
    <3>4. ASSUME NEW phase \in Phase, x = r, Goes(r, phase),
                 phase \in Waiting => req[r].phase \in Waiting,
                 phase \notin Waiting => req[r].phase \notin Waiting,
                 phase = "known" => Usable(req[r].cred),
                 phase = "ready" => \/ req[r].cred = Operator
                                    \/ Permitted(req[r].cred) /\ req[r].phase = "known"
          PROVE  TokenGood(x)'
      <4>1. /\ req'[x].phase = phase /\ req'[x].cred = req[x].cred
            /\ req'[x].fresh = req[x].fresh /\ req'[x].may = req[x].may
        BY <2>2, <3>4 DEF Goes, Requested
      <4>2. QED  BY <2>1, <3>1, <3>4, <4>1 DEF TokenGood, Usable, Permitted, Tables
    <3> USE DEF Phase, InThread, Waiting, At
    <3>5. CASE Check(r)
      BY <2>2, <3>2, <3>4, <3>5 DEF Check
    <3>6. CASE LookUp(r)
      BY <2>2, <3>2, <3>3, <3>4, <3>6 DEF LookUp
    <3>7. CASE ReadRole(r)
      BY <2>2, <3>2, <3>3, <3>4, <3>7 DEF ReadRole
    <3>8. CASE StarveOnLoop(r) \/ Begin(r) \/ StarveInThread(r) \/ Close(r)
      BY <2>2, <3>2, <3>3, <3>8 DEF StarveOnLoop, Begin, StarveInThread, Close, Starves
    <3>9. CASE Query(r) \/ Finish(r) \/ Commit(r) \/ Refresh(r) \/ Probe(r)
      BY <2>2, <3>2, <3>4, <3>9 DEF Query, Finish, Commit, Refresh, Probe
    <3>10. QED  BY <2>5, <3>5, <3>6, <3>7, <3>8, <3>9 DEF Progress
  <2>6. ASSUME NEW s \in Session, NEW u \in User, Login(s, u) PROVE TokenGood(x)'
    <3>1. /\ session[s] = NoSession /\ session'[s] # NoSession
          /\ \A t \in Session \ {s} : session'[t] = session[t]
          /\ now' = now /\ permitted' = permitted /\ revoked' = revoked /\ req' = req
      <4>1. [user |-> u, expires |-> now + Timeout] # NoSession
        BY DEF NoSession
      <4>2. QED  BY <2>6, <4>1 DEF Login, TypeOK, Limiter
    <3>2. req[x].phase \in Waiting => req[x].cred # s
      BY <2>1, <3>1 DEF TokenGood
    <3>3. QED  BY <2>1, <3>1, <3>2 DEF TokenGood, Usable, Permitted
  <2>7. ASSUME NEW t \in Session \cup ApiKey, Revoke(t) PROVE TokenGood(x)'
    BY <2>1, <2>7 DEF Revoke, TokenGood, Usable, Permitted, Limiter
  <2>8. ASSUME NEW u \in User, ChangeUser(u) PROVE TokenGood(x)'
    <3>1. /\ req'[x].phase = req[x].phase /\ req'[x].cred = req[x].cred
          /\ req'[x].fresh = req[x].fresh
          /\ req'[x].may = (\/ req[x].may
                            \/ u \notin permitted /\ req[x].cred \in Session
                                 /\ session[req[x].cred].user = u)
      BY <2>2, <2>8 DEF ChangeUser, Requested
    <3>2. now' = now /\ session' = session /\ revoked' = revoked
      BY <2>8 DEF ChangeUser, Limiter
    <3>3. permitted' = IF u \in permitted THEN permitted \ {u} ELSE permitted \cup {u}
      BY <2>8 DEF ChangeUser
    <3>4. ASSUME NEW v \in permitted' PROVE v \in permitted \/ (v = u /\ u \notin permitted)
      <4>1. CASE u \in permitted
        BY <3>3, <3>4, <4>1
      <4>2. CASE u \notin permitted
        BY <3>3, <3>4, <4>2
      <4>3. QED  BY <4>1, <4>2
    <3>5. Permitted(req[x].cred)' => Permitted(req[x].cred) \/ req'[x].may
      BY <3>1, <3>2, <3>4 DEF Permitted
    <3>6. QED  BY <2>1, <3>1, <3>2, <3>5 DEF TokenGood, Usable, Permitted
  <2>9. CASE UNCHANGED vars
    BY <2>1, <2>9 DEF vars, TokenGood, Usable, Permitted
  <2>10. QED  BY <2>3, <2>4, <2>5, <2>6, <2>7, <2>8, <2>9 DEF Next
<1>3. QED  BY <1>1, <1>2, AdmissionTypeCorrect, PTL DEF Spec

(* A token that was revoked or had expired as its request came lets nobody *)
(* through, nor one whose user was not permitted at any time since         *)
(* (resolve_role_for_token).                                               *)
THEOREM OnlyGoodGranted == Spec => []GrantedWhileGood
<1>1. TokenInv => GrantedWhileGood
  BY DEF TokenInv, TokenGood, GrantedWhileGood, Waiting, At
<1>2. QED  BY <1>1, TokenInvariant, PTL

-----------------------------------------------------------------------------
(* Connections *)

HeldInv ==
  /\ held \subseteq InProgress
  /\ loop # 0 => loop \in InProgress

LEMMA HeldInvariant == Spec => []HeldInv
<1>1. Init => HeldInv
  BY DEF Init, HeldInv
<1>2. TypeOK /\ HeldInv /\ [Next]_vars => HeldInv'
  <2> SUFFICES ASSUME TypeOK, HeldInv, [Next]_vars PROVE HeldInv'
    OBVIOUS
  <2>1. req \in [Request -> Requested]
    BY DEF TypeOK, Requested
  <2>2. ASSUME NEW r \in Request, NEW c \in Client, NEW cred \in Credential, Enter(r, c, cred)
        PROVE  HeldInv'
    <3>1. held' = held /\ r \notin held /\ \A x \in Request \ {r} : req'[x] = req[x]
      BY <2>1, <2>2 DEF Enter, HeldInv, InProgress, At, Past
    <3>2. loop' = 0
      BY <2>2 DEF Enter
    <3>3. QED  BY <3>1, <3>2 DEF HeldInv, InProgress
  <2>3. ASSUME NEW r \in Request, Progress(r) PROVE HeldInv'
    <3>1. \A x \in Request \ {r} : req'[x] = req[x]
      BY <2>1, <2>3, ProgressType DEF Goes, Past
    <3>2. CASE Close(r)
      <4>1. held' = held \ {r} /\ loop' = 0
        BY <3>2 DEF Close
      <4>2. QED  BY <3>1, <4>1 DEF HeldInv, InProgress
    <3>3. CASE ~Close(r)
      <4>1. \E phase \in Phase \ {"new", "answered"} : Goes(r, phase) \/ Past(r, phase)
        BY <2>3, <3>3
        DEF Progress, Check, LookUp, ReadRole, StarveOnLoop, Begin, Query, Finish, Commit,
            Refresh, Probe, StarveInThread, Starves, Phase, InThread
      <4>2. r \in InProgress'
        BY <2>1, <4>1, StepType DEF InProgress
      <4>3. held' \subseteq held \cup {r}
        BY <2>3, ProgressType
      <4>4. loop' \in {0, r, loop}
        BY <2>3, <3>3
        DEF Progress, Check, LookUp, ReadRole, StarveOnLoop, Begin, Query, Finish, Commit,
            Refresh, Probe, StarveInThread
      <4>5. QED  BY <3>1, <4>2, <4>3, <4>4 DEF HeldInv, InProgress
    <3>4. QED  BY <3>2, <3>3
  <2>4. ASSUME NEW u \in User, ChangeUser(u) PROVE HeldInv'
    <3>1. held' = held /\ loop' = loop /\ \A x \in Request : req'[x].phase = req[x].phase
      BY <2>1, <2>4 DEF ChangeUser, Requested
    <3>2. QED  BY <3>1 DEF HeldInv, InProgress
  <2>5. QED
    BY <2>2, <2>3, <2>4 DEF Next, Tick, Login, Revoke, vars, HeldInv, InProgress
<1>3. QED  BY <1>1, <1>2, AdmissionTypeCorrect, PTL DEF Spec

(* Nobody waits for a connection in vain unless the requests in progress   *)
(* want more than there are (get_db, _database_reachable).                 *)
THEOREM NoConnectionLost == Spec => StarvedOnlyCrowded
<1> DEFINE Probing == { x \in held : At(x, "probing") }
           Crowded == Cardinality(InProgress) + Cardinality(Probing) > Pool
<1>1. ASSUME TypeOK, HeldInv, [Next]_vars, NEW r \in Request,
             req'[r].phase = "starved", ~At(r, "starved")
      PROVE  Crowded
  <2>1. req \in [Request -> Requested]
    BY <1>1 DEF TypeOK, Requested
  <2>2. PICK x \in Request : StarveOnLoop(x) \/ StarveInThread(x)
    <3>1. ASSUME req' = req \/ \A x \in Request : req'[x].phase = req[x].phase PROVE FALSE
      BY <1>1, <3>1 DEF At
    <3>2. ASSUME NEW u \in User, ChangeUser(u) PROVE \A x \in Request : req'[x].phase = req[x].phase
      BY <2>1, <3>2 DEF ChangeUser, Requested
    <3>3. ASSUME NEW s \in Request, NEW c \in Client, NEW cred \in Credential, Enter(s, c, cred)
          PROVE  req'[r].phase # "starved"
      BY <1>1, <2>1, <3>3 DEF Enter, Coming, Past, New, At
    <3>4. ASSUME NEW s \in Request, Progress(s), ~StarveOnLoop(s), ~StarveInThread(s)
          PROVE  \E phase \in Phase \ {"starved"} : Goes(s, phase) \/ Past(s, phase)
      BY <3>4 DEF Progress, Check, LookUp, ReadRole, Begin, Query, Finish, Commit, Refresh,
                  Probe, Close, Phase, InThread
    <3>5. ASSUME NEW s \in Request, NEW phase \in Phase \ {"starved"},
                 Goes(s, phase) \/ Past(s, phase)
          PROVE  FALSE
      BY <1>1, <2>1, <3>5, StepType DEF At
    <3>6. QED
      BY <1>1, <3>1, <3>2, <3>3, <3>4, <3>5 DEF Next, Tick, Login, Revoke, vars
  <2>3. ~Free /\ Past(x, "starved")
    BY <2>2 DEF StarveOnLoop, StarveInThread, Starves
  <2>4. x = r
    BY <1>1, <2>1, <2>3 DEF Past, At
  <2>5. r \in InProgress /\ (r \in held => At(r, "probing"))
    <3>1. r \notin held => StarveOnLoop(r) \/ StarveInThread(r)
      BY <2>2, <2>4
    <3>2. CASE StarveInThread(r)
      BY <3>2 DEF StarveInThread, InProgress, At
    <3>3. CASE StarveOnLoop(r)
      BY <1>1, <3>3 DEF StarveOnLoop, InProgress, HeldInv, Request
    <3>4. QED  BY <2>2, <2>4, <3>2, <3>3
  <2>6. IsFiniteSet(InProgress) /\ InProgress \subseteq Request
    <3>1. IsFiniteSet(Request)
      BY FS_Interval, AdmissionAssumption DEF Request
    <3>2. QED  BY <3>1, FS_Subset DEF InProgress
  <2>7. held \subseteq InProgress
    BY <1>1 DEF HeldInv
  <2>8. /\ IsFiniteSet(held) /\ Cardinality(held) <= Cardinality(InProgress)
        /\ Cardinality(held) = Cardinality(InProgress) => held = InProgress
        /\ IsFiniteSet(Probing)
    BY <2>6, <2>7, FS_Subset
  <2>9. Cardinality(held) \in Nat /\ Cardinality(InProgress) \in Nat /\ Cardinality(Probing) \in Nat
    BY <2>6, <2>8, FS_CardinalityType
  <2>10. r \in held => Cardinality(Probing) # 0
    BY <2>5, <2>8, FS_EmptySet
  <2>11. Cardinality(held) >= Pool /\ Pool \in Nat
    BY <2>3, <2>9, AdmissionAssumption DEF Free
  <2>12. CASE r \in held
    BY <2>8, <2>9, <2>10, <2>11, <2>12
  <2>13. CASE r \notin held
    BY <2>5, <2>8, <2>9, <2>11, <2>13
  <2>14. QED  BY <2>12, <2>13
<1>2. TypeOK /\ HeldInv /\ [Next]_vars
        => [\A r \in Request : req'[r].phase = "starved" /\ ~At(r, "starved") => Crowded]_vars
  BY <1>1
<1>3. QED  BY <1>2, AdmissionTypeCorrect, HeldInvariant, PTL DEF Spec, StarvedOnlyCrowded
=============================================================================
