--------------------------- MODULE RegistrationProofs ---------------------------
(***************************************************************************)
(* Theorems about one-time codes for any emails, details and number of     *)
(* codes, and any finite set of requests in flight.                        *)
(*                                                                         *)
(* The rows of the codes keep what they were created with, and a request   *)
(* keeps what it read of a row; the counts of attempts and of tokens owe   *)
(* one to each request that was let in and has not yet taken it.           *)
(***************************************************************************)
EXTENDS Registration, Counting

-----------------------------------------------------------------------------
(* Types, and the codes that may still be issued *)

OtpsIssued == \A o \in otps : o.id <= issued

OtpsBounded == issued + Cardinality(Issuing) <= MaxOtps

RequestsIssued == \A r \in Requests : req[r] # Idle => req[r].otp <= issued

TypeInv ==
  /\ TypeOK
  /\ OtpsIssued
  /\ OtpsBounded
  /\ RequestsIssued

-----------------------------------------------------------------------------
(* How one request changes *)

OthersSame(r) == \A s \in Requests \ {r} : req'[s] = req[s]

ReqTyped == req' \in [Requests -> InFlight \cup {Idle}]

LEMMA RequestChange ==
  ASSUME TypeOK, NEW r \in Requests, NEW q,
         req' = [req EXCEPT ![r] = q]
  PROVE  req'[r] = q /\ OthersSame(r)
BY DEF TypeOK, OthersSame

\* What a request that starts looks like.
LEMMA StartRecord ==
  ASSUME TypeOK, NEW r \in Requests, NEW op, NEW step, NEW e, NEW d, NEW id, NEW code,
         Start(r, op, step, e, d, id, code)
  PROVE  /\ req[r] = Idle /\ OthersSame(r)
         /\ orderly' = (orderly /\ Alone)
         /\ req'[r].op = op /\ req'[r].step = step /\ req'[r].email = e
         /\ req'[r].details = d /\ req'[r].otp = id /\ req'[r].code = code
<1> DEFINE q == [op |-> op, step |-> step, email |-> e, details |-> d, otp |-> id,
                 code |-> code]
<1>1. /\ req' = [req EXCEPT ![r] = q] /\ req[r] = Idle
      /\ orderly' = (orderly /\ Alone)
  BY DEF Start
<1>2. /\ q.op = op /\ q.step = step /\ q.email = e
      /\ q.details = d /\ q.otp = id /\ q.code = code
  OBVIOUS
<1> HIDE DEF q
<1>3. req'[r] = q /\ OthersSame(r)
  BY <1>1, RequestChange
<1> QED
  BY <1>1, <1>2, <1>3

LEMMA StartTyped ==
  ASSUME TypeOK, NEW r \in Requests, NEW e \in Emails,
         NEW op \in {"customerRegister", "resendOtp", "verifyOtp",
                     "customerForgotPassword", "verifyForgotPasswordOtp"},
         NEW step \in {"readLast", "invalidate", "count"},
         NEW d \in Details \cup {NoDetails}, NEW id \in 0..MaxOtps,
         NEW code \in 0..MaxOtps,
         Start(r, op, step, e, d, id, code)
  PROVE  ReqTyped
<1> DEFINE q == [op |-> op, step |-> step, email |-> e, details |-> d, otp |-> id,
                 code |-> code]
<1>1. req' = [req EXCEPT ![r] = q]
  BY DEF Start
<1>2. q \in InFlight
  BY DEF InFlight
<1> HIDE DEF q
<1> QED
  BY <1>1, <1>2 DEF TypeOK, ReqTyped

\* What a request looks like that goes on to its next statement.
LEMMA ContinueRecord ==
  ASSUME TypeOK, NEW r \in Requests, req[r] # Idle,
         NEW step \in {"invalidate", "create", "readUser", "commit", "mark", "grant"},
         Continue(r, step)
  PROVE  /\ OthersSame(r) /\ ReqTyped /\ orderly' = orderly
         /\ req'[r] # Idle /\ req'[r].step = step
         /\ req'[r].op = req[r].op /\ req'[r].email = req[r].email
         /\ req'[r].details = req[r].details /\ req'[r].otp = req[r].otp
         /\ req'[r].code = req[r].code
<1> DEFINE q == [req[r] EXCEPT !.step = step]
<1>1. req' = [req EXCEPT ![r] = q] /\ orderly' = orderly
  BY DEF Continue
<1>2. req[r] \in InFlight
  BY DEF TypeOK
<1>3. /\ q \in InFlight /\ q.step = step
      /\ q.op = req[r].op /\ q.email = req[r].email
      /\ q.details = req[r].details /\ q.otp = req[r].otp /\ q.code = req[r].code
  BY <1>2 DEF InFlight
<1>4. q # Idle
  BY <1>3 DEF InFlight, Idle
<1> HIDE DEF q
<1>5. req'[r] = q /\ OthersSame(r) /\ ReqTyped
  BY <1>1, <1>3, RequestChange DEF TypeOK, ReqTyped
<1> QED
  BY <1>1, <1>3, <1>4, <1>5

\* resendOtp takes the details of the last row along.
LEMMA ResendRecord ==
  ASSUME TypeOK, NEW r \in Requests, req[r] # Idle, NEW d \in Details \cup {NoDetails},
         req' = [req EXCEPT ![r].step = "invalidate", ![r].details = d]
  PROVE  /\ OthersSame(r) /\ ReqTyped
         /\ req'[r] # Idle /\ req'[r].step = "invalidate"
         /\ req'[r].op = req[r].op /\ req'[r].email = req[r].email
         /\ req'[r].details = d /\ req'[r].otp = req[r].otp
<1> DEFINE p == [req[r] EXCEPT !.step = "invalidate"]
           q == [p EXCEPT !.details = d]
<1>1. req[r] \in InFlight
  BY DEF TypeOK
<1>2. /\ p \in InFlight /\ p.step = "invalidate"
      /\ p.op = req[r].op /\ p.email = req[r].email /\ p.otp = req[r].otp
  BY <1>1 DEF InFlight
<1>3. req' = [[req EXCEPT ![r] = p] EXCEPT ![r] = [[req EXCEPT ![r] = p][r] EXCEPT !.details = d]]
  BY Zenon
<1>4. req' = [req EXCEPT ![r] = q]
  <2>1. [req EXCEPT ![r] = p][r] = p
    BY DEF TypeOK
  <2>2. req' = [[req EXCEPT ![r] = p] EXCEPT ![r] = q]
    BY <1>3, <2>1
  <2> HIDE DEF q, p
  <2> QED
    BY <2>2 DEF TypeOK
<1>5. /\ q \in InFlight /\ q.step = "invalidate" /\ q.details = d
      /\ q.op = p.op /\ q.email = p.email /\ q.otp = p.otp
  <2> HIDE DEF p
  <2> QED
    BY <1>2 DEF InFlight
<1>6. q # Idle
  BY <1>5 DEF InFlight, Idle
<1> HIDE DEF p, q
<1>7. req'[r] = q /\ OthersSame(r) /\ ReqTyped
  BY <1>4, <1>5, RequestChange DEF TypeOK, ReqTyped
<1> QED
  BY <1>2, <1>5, <1>6, <1>7

LEMMA EndRecord ==
  ASSUME TypeOK, NEW r \in Requests, req' = [req EXCEPT ![r] = Idle]
  PROVE  req'[r] = Idle /\ OthersSame(r) /\ ReqTyped
BY RequestChange DEF TypeOK, ReqTyped

-----------------------------------------------------------------------------
(* How the rows change *)

\* A row keeps what it was created with; attempts at the codes in A are
\* counted, and the codes in V are verified.
Follows(o, p, A, V) ==
  /\ p.id = o.id /\ p.email = o.email /\ p.purpose = o.purpose
  /\ p.details = o.details
  /\ p.attempts = o.attempts + IF o.id \in A THEN 1 ELSE 0
  /\ p.isVerified <=> o.isVerified \/ o.id \in V

RowsFollow(A, V) ==
  /\ otps' \subseteq EmailOtp
  /\ \A p, q \in otps' : p.id = q.id => p = q
  /\ \A p \in otps' : \E o \in otps : Follows(o, p, A, V)

LEMMA RowsOnlyGo ==
  ASSUME TypeOK, otps' \subseteq otps
  PROVE  RowsFollow({}, {})
BY DEF TypeOK, RowsFollow, Follows, EmailOtp

LEMMA TickRows ==
  ASSUME TypeOK, Tick
  PROVE  RowsFollow({}, {})
<1> DEFINE aged(o) == [o EXCEPT !.age = IF @ < Lifetime THEN @ + 1 ELSE @]
<1>1. otps' = {aged(o) : o \in otps}
  BY DEF Tick
<1>2. ASSUME NEW o \in otps
      PROVE  aged(o) \in EmailOtp /\ aged(o).id = o.id /\ Follows(o, aged(o), {}, {})
  <2>1. o \in EmailOtp
    BY DEF TypeOK
  <2>2. o.age \in 0..Lifetime
    BY <2>1 DEF EmailOtp
  <2>3. (IF o.age < Lifetime THEN o.age + 1 ELSE o.age) \in 0..Lifetime
    BY <2>2, TimesAssumption
  <2> QED
    BY <2>1, <2>3 DEF EmailOtp, Follows
<1> HIDE DEF aged
<1> QED
  BY <1>1, <1>2 DEF RowsFollow, TypeOK

LEMMA CountRows ==
  ASSUME TypeOK, NEW r \in Requests, CountAttempt(r)
  PROVE  RowsFollow({req[r].otp}, {})
<1>1. CASE RowOf(req[r].otp) = {} /\ otps' = otps
  <2>1. \A o \in otps : o.id # req[r].otp
    BY <1>1 DEF RowOf
  <2> QED
    BY <1>1, <2>1 DEF TypeOK, RowsFollow, Follows, EmailOtp
<1>2. ASSUME NEW o \in RowOf(req[r].otp),
             otps' = (otps \ {o}) \cup {[o EXCEPT !.attempts = @ + 1]}
      PROVE  RowsFollow({req[r].otp}, {})
  <2> DEFINE c == [o EXCEPT !.attempts = @ + 1]
  <2>1. o \in EmailOtp /\ o \in otps /\ o.id = req[r].otp
    BY DEF RowOf, TypeOK
  <2>2. c \in EmailOtp /\ c.id = o.id /\ Follows(o, c, {req[r].otp}, {})
    BY <2>1 DEF EmailOtp, Follows
  <2>3. ASSUME NEW p \in otps \ {o}
        PROVE  p \in EmailOtp /\ p.id # o.id /\ Follows(p, p, {req[r].otp}, {})
    BY <2>1 DEF TypeOK, EmailOtp, Follows
  <2> HIDE DEF c
  <2>4. otps' = (otps \ {o}) \cup {c}
    BY <1>2 DEF c
  <2> QED
    BY <2>1, <2>2, <2>3, <2>4 DEF RowsFollow, TypeOK
<1> QED
  BY <1>1, <1>2 DEF CountAttempt

LEMMA MarkRows ==
  ASSUME TypeOK, NEW id, otps' = MarkVerified(RowOf(id))
  PROVE  RowsFollow({}, {id})
<1> DEFINE marked(o) == [o EXCEPT !.isVerified = TRUE]
<1>1. otps' = (otps \ RowOf(id)) \cup {marked(o) : o \in RowOf(id)}
  BY DEF MarkVerified
<1>2. ASSUME NEW o \in otps, o.id = id
      PROVE  marked(o) \in EmailOtp /\ marked(o).id = id /\ Follows(o, marked(o), {}, {id})
  <2>1. o \in EmailOtp /\ marked(o) \in EmailOtp
    BY DEF TypeOK, EmailOtp
  <2> QED
    BY <1>2, <2>1 DEF EmailOtp, Follows
<1>3. ASSUME NEW o \in otps, o.id # id
      PROVE  o \in EmailOtp /\ Follows(o, o, {}, {id})
  BY <1>3 DEF TypeOK, EmailOtp, Follows
<1>4. \A o \in otps : o \in RowOf(id) <=> o.id = id
  BY DEF RowOf
<1> HIDE DEF marked
<1>5. \A p \in otps' :
        \E o \in otps : (p = marked(o) /\ o.id = id) \/ (p = o /\ o.id # id)
  BY <1>1, <1>4 DEF RowOf
<1>6. \A p \in otps' :
        p \in EmailOtp /\ \E o \in otps : p.id = o.id /\ Follows(o, p, {}, {id})
  BY <1>2, <1>3, <1>5
<1>7. \A p, q \in otps' : p.id = q.id => p = q
  BY <1>2, <1>5 DEF TypeOK
<1> QED
  BY <1>6, <1>7 DEF RowsFollow

\* findFirst finds a row when there is one.
LEMMA NewestFound ==
  ASSUME TypeInv, NEW S \in SUBSET otps, S # {}
  PROVE  Newest(S) \in S
<1> DEFINE ids == {o.id : o \in S}
<1>1. ids \in SUBSET (0..MaxOtps) /\ ids # {}
  BY DEF TypeInv, TypeOK, EmailOtp
<1>2. \E n \in ids : \A m \in ids : m <= n
  <2> HIDE DEF ids
  <2> QED
    BY <1>1, OtpsAssumption, LargestBelow
<1>3. \E o \in S : \A p \in S : p.id <= o.id
  BY <1>2
<1> QED
  BY <1>3 DEF Newest

-----------------------------------------------------------------------------
(* The types *)

LEMMA IssuingChange ==
  ASSUME TypeOK, NEW r \in Requests, OthersSame(r)
  PROVE  /\ IsFiniteSet(Issuing)
         /\ Issuing \ {r} = Issuing' \ {r}
BY RequestsAssumption, FS_Subset DEF Issuing, OthersSame

\* The steps that issue no code.
LEMMA RestTyped ==
  ASSUME TypeInv, NEW r \in Requests, OthersSame(r), ReqTyped,
         NEW A, NEW V, RowsFollow(A, V),
         account' \in [Emails -> Details \cup {NoAccount, Staff}],
         granted' \in [1..MaxOtps -> Nat], created' \in [1..MaxOtps -> Nat],
         issued' = issued, orderly' \in BOOLEAN,
         r \in Issuing' => r \in Issuing \/ issued + Cardinality(Issuing) < MaxOtps,
         req'[r] # Idle => req'[r].otp <= issued
  PROVE  TypeInv'
<1>1. TypeOK'
  BY DEF TypeInv, TypeOK, RowsFollow, ReqTyped
<1>2. OtpsIssued'
  BY DEF TypeInv, OtpsIssued, RowsFollow, Follows
<1>3. RequestsIssued'
  BY DEF TypeInv, RequestsIssued, OthersSame
<1>4. OtpsBounded'
  <2>1. /\ IsFiniteSet(Issuing)
        /\ Issuing \ {r} = Issuing' \ {r}
    BY IssuingChange DEF TypeInv
  <2>2. /\ Cardinality(Issuing) \in Nat
        /\ Cardinality(Issuing') \in Nat
        /\ \/ Cardinality(Issuing') <= Cardinality(Issuing)
           \/ /\ Cardinality(Issuing') = Cardinality(Issuing) + 1
              /\ issued + Cardinality(Issuing) < MaxOtps
    BY <2>1, CountChange
  <2>3. issued \in Nat /\ issued + Cardinality(Issuing) <= MaxOtps
    BY DEF TypeInv, TypeOK, OtpsBounded
  <2> QED
    BY <2>2, <2>3, OtpsAssumption DEF OtpsBounded
<1> QED
  BY <1>1, <1>2, <1>3, <1>4 DEF TypeInv

\* The row of a new code, and that its number is new.
LEMMA CreateRow ==
  ASSUME TypeInv, NEW r \in Requests, CreateOtp(r)
  PROVE  \E n \in EmailOtp :
           /\ otps' = otps \cup {n} /\ issued' = issued + 1
           /\ n.id = issued + 1 /\ n.email = req[r].email
           /\ n.purpose = IF req[r].op \in RegistrationOps THEN "REGISTRATION"
                          ELSE "FORGOT_PASSWORD"
           /\ n.details = req[r].details /\ n.attempts = 0 /\ ~n.isVerified
           /\ req[r] # Idle /\ req[r].step = "create" /\ issued + 1 <= MaxOtps
           /\ req[r].op \in RegistrationOps \cup {"customerForgotPassword"}
           /\ req'[r] = Idle /\ OthersSame(r) /\ ReqTyped
           /\ UNCHANGED <<account, granted, created, orderly>>
<1> DEFINE purpose == IF req[r].op \in RegistrationOps THEN "REGISTRATION"
                      ELSE "FORGOT_PASSWORD"
           n == [id |-> issued + 1, email |-> req[r].email, purpose |-> purpose,
                 details |-> req[r].details, attempts |-> 0, age |-> 0,
                 isVerified |-> FALSE]
<1>1. /\ otps' = otps \cup {n} /\ issued' = issued + 1
      /\ UNCHANGED <<account, granted, created, orderly>>
      /\ req' = [req EXCEPT ![r] = Idle]
      /\ req[r] # Idle /\ req[r].step = "create"
      /\ req[r].op \in RegistrationOps \cup {"customerForgotPassword"}
  BY DEF CreateOtp, Finish, At
<1>2. req'[r] = Idle /\ OthersSame(r) /\ ReqTyped
  BY <1>1, EndRecord DEF TypeInv
<1>3. req[r] \in InFlight
  BY <1>1 DEF TypeInv, TypeOK
<1>4. req[r].email \in Emails /\ req[r].details \in Details \cup {NoDetails}
  BY <1>3 DEF InFlight
<1>5. r \in Issuing
  BY <1>1 DEF Issuing
<1>6. Cardinality(Issuing) \in Nat /\ Cardinality(Issuing) >= 1
  <2>1. IsFiniteSet(Issuing) /\ {r} \in SUBSET Issuing
    BY <1>5, RequestsAssumption, FS_Subset DEF Issuing
  <2>2. Cardinality({r}) = 1
    BY FS_Singleton
  <2> QED
    BY <2>1, <2>2, PartCount
<1>7. issued \in Nat /\ issued + 1 \in 1..MaxOtps
  BY <1>6, OtpsAssumption DEF TypeInv, TypeOK, OtpsBounded
<1>8. n \in EmailOtp
  <2>1. purpose \in Purposes
    BY DEF Purposes
  <2>2. 0 \in 0..Lifetime
    BY TimesAssumption
  <2> HIDE DEF purpose
  <2> QED
    BY <1>4, <1>7, <2>1, <2>2 DEF EmailOtp
<1>9. /\ n.id = issued + 1 /\ n.email = req[r].email /\ n.purpose = purpose
      /\ n.details = req[r].details /\ n.attempts = 0 /\ ~n.isVerified
  OBVIOUS
<1> HIDE DEF n
<1> QED
  BY <1>1, <1>2, <1>7, <1>8, <1>9, OtpsAssumption

LEMMA CreateTyped ==
  ASSUME TypeInv, NEW r \in Requests, CreateOtp(r)
  PROVE  TypeInv'
<1>1. PICK n \in EmailOtp :
        /\ otps' = otps \cup {n} /\ issued' = issued + 1
        /\ n.id = issued + 1 /\ issued + 1 <= MaxOtps
        /\ req[r] # Idle /\ req[r].step = "create"
        /\ req'[r] = Idle /\ OthersSame(r) /\ ReqTyped
        /\ UNCHANGED <<account, granted, created, orderly>>
  BY CreateRow
<1>2. issued \in Nat /\ \A o \in otps : o.id # issued + 1
  BY DEF TypeInv, TypeOK, OtpsIssued, EmailOtp
<1>3. TypeOK'
  BY <1>1, <1>2, OtpsAssumption DEF TypeInv, TypeOK, ReqTyped
<1>4. OtpsIssued'
  BY <1>1, <1>2 DEF TypeInv, TypeOK, OtpsIssued, EmailOtp
<1>5. RequestsIssued'
  <2>1. \A s \in Requests : req[s] # Idle => req[s].otp \in Nat
    BY DEF TypeInv, TypeOK, InFlight
  <2> QED
    BY <1>1, <1>2, <2>1 DEF TypeInv, RequestsIssued, OthersSame
<1>6. OtpsBounded'
  <2>1. r \in Issuing /\ r \notin Issuing'
    BY <1>1 DEF Issuing
  <2>2. IsFiniteSet(Issuing) /\ Issuing \ {r} = Issuing' \ {r}
    BY <1>1, IssuingChange DEF TypeInv
  <2>3. /\ Cardinality(Issuing) \in Nat
        /\ Cardinality(Issuing') = Cardinality(Issuing) - 1
    BY <2>1, <2>2, CountChange
  <2> QED
    BY <1>1, <1>2, <2>3, OtpsAssumption DEF TypeInv, OtpsBounded
<1> QED
  BY <1>3, <1>4, <1>5, <1>6 DEF TypeInv

-----------------------------------------------------------------------------
(* What every call and every statement does to its request and to the rows *)

Verifying(r) ==
  req[r] # Idle /\ req[r].op \in {"verifyOtp", "verifyForgotPasswordOtp"}

\* A call starts with what it found.
LEMMA CallShape ==
  ASSUME TypeInv, NEW r \in Requests, NEW e \in Emails, Call(r, e)
  PROVE  /\ req[r] = Idle /\ OthersSame(r) /\ ReqTyped
         /\ orderly' = (orderly /\ Alone) /\ UNCHANGED <<account, otps, issued, granted, created>>
         /\ req'[r] # Idle /\ req'[r].email = e
         /\ \/ /\ issued + Cardinality(Issuing) < MaxOtps
               /\ req'[r].otp = 0
               /\ \/ /\ req'[r].op = "customerRegister" /\ req'[r].step = "invalidate"
                     /\ ~IsCustomer(e)
                  \/ /\ req'[r].op = "resendOtp" /\ req'[r].step = "readLast"
                     /\ ~IsCustomer(e)
                  \/ /\ req'[r].op = "customerForgotPassword" /\ req'[r].step = "readLast"
                     /\ req'[r].details = NoDetails /\ IsCustomer(e)
            \/ /\ req'[r].op = "verifyOtp" /\ req'[r].step = "count"
               /\ \E o \in Pending(e) :
                    /\ req'[r].otp = o.id /\ req'[r].details = o.details
                    /\ o.attempts < MaxAttempts
            \/ /\ req'[r].op = "verifyForgotPasswordOtp" /\ req'[r].step = "count"
               /\ \E o \in PendingForgot(e) :
                    /\ req'[r].otp = o.id /\ o.attempts < MaxAttempts
<1>0. TypeOK /\ 0 \in 0..MaxOtps
  BY OtpsAssumption DEF TypeInv
<1>1. CASE /\ issued + Cardinality(Issuing) < MaxOtps
           /\ \E d \in Details : CustomerRegister(r, e, d)
  <2>1. PICK d \in Details : CustomerRegister(r, e, d)
    BY <1>1
  <2>2. Start(r, "customerRegister", "invalidate", e, d, 0, 0) /\ ReadOnly /\ ~IsCustomer(e)
    BY <2>1 DEF CustomerRegister
  <2>3. ReqTyped
    BY <1>0, <2>2, StartTyped
  <2> QED
    BY <1>0, <1>1, <2>2, <2>3, StartRecord DEF ReadOnly, Idle
<1>2. CASE issued + Cardinality(Issuing) < MaxOtps /\ ResendOtp(r, e)
  <2>1. Start(r, "resendOtp", "readLast", e, NoDetails, 0, 0) /\ ReadOnly /\ ~IsCustomer(e)
    BY <1>2 DEF ResendOtp
  <2>2. ReqTyped
    BY <1>0, <2>1, StartTyped
  <2> QED
    BY <1>0, <1>2, <2>1, <2>2, StartRecord DEF ReadOnly, Idle
<1>3. CASE issued + Cardinality(Issuing) < MaxOtps /\ CustomerForgotPassword(r, e)
  <2>1. /\ Start(r, "customerForgotPassword", "readLast", e, NoDetails, 0, 0)
        /\ ReadOnly /\ IsCustomer(e)
    BY <1>3 DEF CustomerForgotPassword
  <2>2. ReqTyped
    BY <1>0, <2>1, StartTyped
  <2> QED
    BY <1>0, <1>3, <2>1, <2>2, StartRecord DEF ReadOnly, Idle
<1>4. ASSUME NEW code \in 0..issued, VerifyOtp(r, e, code)
      PROVE  /\ req[r] = Idle /\ OthersSame(r) /\ ReqTyped
             /\ orderly' = (orderly /\ Alone) /\ ReadOnly
             /\ req'[r] # Idle /\ req'[r].email = e
             /\ req'[r].op = "verifyOtp" /\ req'[r].step = "count"
             /\ \E o \in Pending(e) :
                  /\ req'[r].otp = o.id /\ req'[r].details = o.details
                  /\ o.attempts < MaxAttempts
  <2> DEFINE o == Newest(Pending(e))
  <2>1. /\ Pending(e) # {} /\ o.attempts < MaxAttempts /\ ReadOnly
        /\ Start(r, "verifyOtp", "count", e, o.details, o.id, code)
    BY <1>4 DEF VerifyOtp, AttemptsLeft
  <2>2. o \in Pending(e)
    BY <2>1, NewestFound DEF Pending
  <2> HIDE DEF o
  <2>3. /\ o.id \in 0..MaxOtps /\ o.details \in Details \cup {NoDetails}
        /\ code \in 0..MaxOtps
    BY <1>0, <2>2, OtpsAssumption DEF TypeOK, Pending, EmailOtp
  <2>4. ReqTyped
    BY <1>0, <2>1, <2>3, StartTyped
  <2> QED
    BY <1>0, <2>1, <2>2, <2>4, StartRecord DEF Idle
<1>5. ASSUME NEW code \in 0..issued, VerifyForgotPasswordOtp(r, e, code)
      PROVE  /\ req[r] = Idle /\ OthersSame(r) /\ ReqTyped
             /\ orderly' = (orderly /\ Alone) /\ ReadOnly
             /\ req'[r] # Idle /\ req'[r].email = e
             /\ req'[r].op = "verifyForgotPasswordOtp" /\ req'[r].step = "count"
             /\ \E o \in PendingForgot(e) :
                  /\ req'[r].otp = o.id /\ o.attempts < MaxAttempts
  <2> DEFINE o == Newest(PendingForgot(e))
  <2>1. /\ PendingForgot(e) # {} /\ o.attempts < MaxAttempts /\ ReadOnly
        /\ Start(r, "verifyForgotPasswordOtp", "count", e, NoDetails, o.id, code)
    BY <1>5 DEF VerifyForgotPasswordOtp, AttemptsLeft
  <2>2. o \in PendingForgot(e)
    BY <2>1, NewestFound DEF PendingForgot, Pending
  <2> HIDE DEF o
  <2>3. o.id \in 0..MaxOtps /\ code \in 0..MaxOtps
    BY <1>0, <2>2, OtpsAssumption DEF TypeOK, PendingForgot, Pending, EmailOtp
  <2>4. ReqTyped
    BY <1>0, <2>1, <2>3, StartTyped
  <2> QED
    BY <1>0, <2>1, <2>2, <2>4, StartRecord DEF Idle
<1> QED
  BY <1>1, <1>2, <1>3, <1>4, <1>5 DEF Call, ReadOnly

\* A request ends, or goes on with what it holds.
GoesOn(r) ==
  /\ req'[r] # Idle
  /\ req'[r].op = req[r].op /\ req'[r].email = req[r].email /\ req'[r].otp = req[r].otp
  /\ req[r].op # "resendOtp" => req'[r].details = req[r].details
  /\ \/ req[r].step = "readLast" /\ req'[r].step = "invalidate"
     \/ req[r].step = "invalidate" /\ req'[r].step = "create"
     \/ req[r].step = "count" /\ req'[r].step = "readUser" /\ req[r].op = "verifyOtp"
     \/ req[r].step = "count" /\ req'[r].step = "mark"
     \/ req[r].step = "readUser" /\ req'[r].step = "commit"
     \/ req[r].step = "mark" /\ req'[r].step = "grant"

\* The statements that issue no code: the request goes on or ends, and only
\* some of them change a row, the account or what was granted.
StepShape(r) ==
  /\ req[r] # Idle /\ OthersSame(r) /\ ReqTyped /\ issued' = issued
  /\ orderly' \in BOOLEAN /\ (orderly' => orderly)
  /\ req'[r] = Idle \/ GoesOn(r)
  /\ \/ RowsFollow({}, {})
     \/ /\ RowsFollow({req[r].otp}, {}) /\ Verifying(r)
        /\ req[r].step = "count" /\ (req'[r] # Idle => req'[r].step # "count")
        /\ req'[r] # Idle => req'[r].step # "grant"
     \/ /\ RowsFollow({}, {req[r].otp})
        /\ At(r, "verifyForgotPasswordOtp", "mark") \/ VerifyOtpCommit(r)
  /\ account' = account \/ VerifyOtpCommit(r)
  /\ created' = created \/ VerifyOtpCommit(r)
  /\ granted' = granted \/ GrantResetToken(r)
  /\ req'[r] # Idle /\ req'[r].step = "grant" =>
       RowsFollow({}, {req[r].otp}) /\ At(r, "verifyForgotPasswordOtp", "mark")

LEMMA StepShapes ==
  ASSUME TypeInv, NEW r \in Requests, Step(r) \/ Fail(r), ~CreateOtp(r)
  PROVE  StepShape(r)
<1>0. TypeOK /\ orderly \in BOOLEAN
  BY DEF TypeInv, TypeOK
<1>1. otps' = otps => RowsFollow({}, {})
  BY <1>0, RowsOnlyGo
<1>2. ASSUME req[r] # Idle, Finish(r), UNCHANGED <<account, issued, granted, created>>,
             otps' = otps
      PROVE  StepShape(r)
  BY <1>0, <1>1, <1>2, EndRecord DEF StepShape, Finish
<1>3. CASE ResendOtpReadLast(r)
  <2> DEFINE last == Newest(Pending(req[r].email))
  <2>1. At(r, "resendOtp", "readLast") /\ ReadOnly
    BY <1>3 DEF ResendOtpReadLast
  <2>2. CASE /\ Pending(req[r].email) # {} /\ orderly' = orderly
             /\ req' = [req EXCEPT ![r].step = "invalidate", ![r].details = last.details]
    <3>1. last \in Pending(req[r].email)
      BY <2>2, NewestFound DEF Pending
    <3>2. last.details \in Details \cup {NoDetails}
      BY <1>0, <3>1 DEF TypeOK, EmailOtp, Pending
    <3>3. last.details \in Details \cup {NoDetails} /\ req[r] # Idle
      BY <2>1, <3>2 DEF At
    <3> HIDE DEF last
    <3>4. \E d \in Details \cup {NoDetails} :
             req' = [req EXCEPT ![r].step = "invalidate", ![r].details = d]
      BY <2>2, <3>3, Zenon
    <3>5. /\ OthersSame(r) /\ ReqTyped
          /\ req'[r] # Idle /\ req'[r].step = "invalidate"
          /\ req'[r].op = req[r].op /\ req'[r].email = req[r].email
          /\ req'[r].otp = req[r].otp
      BY <1>0, <3>3, <3>4, ResendRecord, Zenon
    <3> QED
      BY <1>0, <1>1, <2>1, <2>2, <3>5 DEF StepShape, GoesOn, ReadOnly, At
  <2>3. CASE Finish(r)
    BY <1>2, <2>1, <2>3 DEF ReadOnly, At
  <2> QED
    BY <1>3, <2>2, <2>3 DEF ResendOtpReadLast
<1>4. CASE CustomerForgotPasswordReadLast(r)
  <2>1. At(r, "customerForgotPassword", "readLast") /\ ReadOnly
    BY <1>4 DEF CustomerForgotPasswordReadLast
  <2>2. CASE Continue(r, "invalidate")
    BY <1>0, <1>1, <2>1, <2>2, ContinueRecord DEF StepShape, GoesOn, ReadOnly, At
  <2>3. CASE Finish(r)
    BY <1>2, <2>1, <2>3 DEF ReadOnly, At
  <2> QED
    BY <1>4, <2>2, <2>3 DEF CustomerForgotPasswordReadLast
<1>5. CASE InvalidatePreviousOtps(r) \/ InvalidateForgotOtps(r)
  <2>1. /\ req[r] # Idle /\ req[r].step = "invalidate" /\ otps' \subseteq otps
        /\ Continue(r, "create") /\ UNCHANGED <<account, issued, granted, created>>
    BY <1>5 DEF InvalidatePreviousOtps, InvalidateForgotOtps, At
  <2>2. RowsFollow({}, {})
    BY <1>0, <2>1, RowsOnlyGo
  <2> QED
    BY <1>0, <2>1, <2>2, ContinueRecord DEF StepShape, GoesOn
<1>6. CASE CountAttempt(r)
  <2>1. /\ Verifying(r) /\ req[r].step = "count" /\ RowsFollow({req[r].otp}, {})
        /\ UNCHANGED <<account, issued, granted, created>>
    BY <1>0, <1>6, CountRows DEF CountAttempt, Verifying, At
  <2>2. CASE Finish(r)
    BY <1>0, <2>1, <2>2, EndRecord DEF StepShape, Finish, Verifying
  <2>3. CASE req[r].op = "verifyOtp" /\ Continue(r, "readUser")
    BY <1>0, <2>1, <2>3, ContinueRecord DEF StepShape, GoesOn, Verifying
  <2>4. CASE Continue(r, "mark")
    BY <1>0, <2>1, <2>4, ContinueRecord DEF StepShape, GoesOn, Verifying
  <2> QED
    BY <1>6, <2>2, <2>3, <2>4 DEF CountAttempt
<1>7. CASE VerifyOtpReadUser(r)
  <2>1. At(r, "verifyOtp", "readUser") /\ ReadOnly
    BY <1>7 DEF VerifyOtpReadUser
  <2>2. CASE Continue(r, "commit")
    BY <1>0, <1>1, <2>1, <2>2, ContinueRecord DEF StepShape, GoesOn, ReadOnly, At
  <2>3. CASE Finish(r)
    BY <1>2, <2>1, <2>3 DEF ReadOnly, At
  <2> QED
    BY <1>7, <2>2, <2>3 DEF VerifyOtpReadUser
<1>8. CASE VerifyOtpCommit(r)
  <2>1. /\ At(r, "verifyOtp", "commit") /\ Finish(r) /\ UNCHANGED <<issued, granted>>
        /\ otps' = otps \/ otps' = MarkVerified(RowOf(req[r].otp))
    BY <1>8 DEF VerifyOtpCommit
  <2>2. RowsFollow({}, {}) \/ RowsFollow({}, {req[r].otp})
    BY <1>0, <1>1, <2>1, MarkRows
  <2> QED
    BY <1>0, <1>8, <2>1, <2>2, EndRecord DEF StepShape, Finish, At
<1>9. CASE MarkForgotOtp(r)
  <2>1. /\ At(r, "verifyForgotPasswordOtp", "mark") /\ UNCHANGED <<account, issued, granted, created>>
        /\ otps' = MarkVerified(RowOf(req[r].otp))
        /\ Continue(r, "grant") \/ Finish(r)
    BY <1>9 DEF MarkForgotOtp
  <2>2. RowsFollow({}, {req[r].otp})
    BY <1>0, <2>1, MarkRows
  <2>3. CASE Continue(r, "grant")
    BY <1>0, <2>1, <2>2, <2>3, ContinueRecord DEF StepShape, GoesOn, At
  <2>4. CASE Finish(r)
    BY <1>0, <2>1, <2>2, <2>4, EndRecord DEF StepShape, Finish, At
  <2> QED
    BY <2>1, <2>3, <2>4
<1>10. CASE GrantResetToken(r)
  BY <1>0, <1>1, <1>10, EndRecord DEF StepShape, GrantResetToken, Finish, At
<1>11. CASE Fail(r)
  BY <1>0, <1>1, <1>11, EndRecord DEF StepShape, Fail, ReadOnly
<1> QED
  BY <1>3, <1>4, <1>5, <1>6, <1>7, <1>8, <1>9, <1>10, <1>11 DEF Step

\* An account that changes elsewhere.
LEMMA ChangeShape ==
  ASSUME TypeInv, Change
  PROVE  /\ account' \in [Emails -> Details \cup {NoAccount, Staff}]
         /\ orderly' = (orderly /\ Alone) /\ orderly' \in BOOLEAN
         /\ orderly' = orderly \/ \E r \in Requests : req[r] # Idle
         /\ UNCHANGED <<otps, issued, req, granted, created>>
<1>1. Elsewhere
  BY DEF Change, ChangeCustomer, ChangeStaff
<1>2. account \in [Emails -> Details \cup {NoAccount, Staff}]
  BY DEF TypeInv, TypeOK
<1>3. ASSUME NEW e \in Emails, NEW f \in Emails, NEW d \in Details, ChangeCustomer(e, f, d)
      PROVE  account' \in [Emails -> Details \cup {NoAccount, Staff}]
  BY <1>2, <1>3 DEF ChangeCustomer
<1>4. ASSUME NEW e \in Emails, ChangeStaff(e)
      PROVE  account' \in [Emails -> Details \cup {NoAccount, Staff}]
  BY <1>2, <1>4 DEF ChangeStaff
<1>5. orderly \in BOOLEAN
  BY DEF TypeInv, TypeOK
<1> QED
  BY <1>1, <1>3, <1>4, <1>5 DEF Change, Elsewhere, Alone

LEMMA NextTyped == TypeInv /\ [Next]_vars => TypeInv'
<1> SUFFICES ASSUME TypeInv, [Next]_vars PROVE TypeInv'
  OBVIOUS
<1>1. CASE UNCHANGED vars
  BY <1>1 DEF vars, TypeInv, TypeOK, OtpsIssued, OtpsBounded, RequestsIssued, Issuing
<1>2. CASE Tick
  <2>1. RowsFollow({}, {}) /\ UNCHANGED <<account, issued, req, granted, created, orderly>>
    BY <1>2, TickRows DEF TypeInv, Tick
  <2>2. TypeOK'
    BY <2>1 DEF TypeInv, TypeOK, RowsFollow
  <2> QED
    BY <2>1, <2>2 DEF TypeInv, OtpsIssued, OtpsBounded, RequestsIssued, Issuing, RowsFollow,
       Follows
<1>3. ASSUME NEW r \in Requests, NEW e \in Emails, Call(r, e)
      PROVE  TypeInv'
  <2>1. /\ OthersSame(r) /\ ReqTyped /\ orderly' = (orderly /\ Alone)
        /\ UNCHANGED <<account, otps, issued, granted, created>>
    BY <1>3, CallShape
  <2>2. r \in Issuing' => issued + Cardinality(Issuing) < MaxOtps
    BY <1>3, CallShape DEF Issuing
  <2>3. req'[r].otp <= issued
    <3>1. issued \in Nat
      BY DEF TypeInv, TypeOK
    <3> QED
      BY <1>3, <3>1, CallShape DEF TypeInv, OtpsIssued, Pending, PendingForgot
  <2>4. RowsFollow({}, {}) /\ orderly' \in BOOLEAN
    BY <2>1, RowsOnlyGo DEF TypeInv, Alone
  <2>5. /\ account' \in [Emails -> Details \cup {NoAccount, Staff}]
        /\ granted' \in [1..MaxOtps -> Nat] /\ issued' = issued
        /\ created' \in [1..MaxOtps -> Nat]
    BY <2>1 DEF TypeInv, TypeOK
  <2> QED
    BY <2>1, <2>2, <2>3, <2>4, <2>5, RestTyped
<1>4. ASSUME NEW r \in Requests, Step(r) \/ Fail(r), ~CreateOtp(r)
      PROVE  TypeInv'
  <2>1. StepShape(r)
    BY <1>4, StepShapes
  <2>2. /\ account' \in [Emails -> Details \cup {NoAccount, Staff}]
        /\ created' \in [1..MaxOtps -> Nat]
    <3>1. CASE VerifyOtpCommit(r)
      <4>1. req[r] \in InFlight
        BY <3>1 DEF VerifyOtpCommit, At, TypeInv, TypeOK
      <4>2. req[r].email \in Emails /\ req[r].details \in Details \cup {NoDetails}
        BY <4>1 DEF InFlight
      <4> QED
        BY <3>1, <4>2 DEF VerifyOtpCommit, CreateAccount, TypeInv, TypeOK
    <3> QED
      BY <2>1, <3>1 DEF StepShape, TypeInv, TypeOK
  <2>3. granted' \in [1..MaxOtps -> Nat]
    BY <2>1 DEF StepShape, GrantResetToken, TypeInv, TypeOK
  <2>4. r \in Issuing' => r \in Issuing
    BY <2>1 DEF StepShape, GoesOn, Issuing
  <2>5. req'[r] # Idle => req'[r].otp <= issued
    BY <2>1 DEF StepShape, GoesOn, TypeInv, RequestsIssued
  <2>6. OthersSame(r) /\ ReqTyped /\ issued' = issued /\ orderly' \in BOOLEAN
    BY <2>1 DEF StepShape
  <2>7. \E A, V : RowsFollow(A, V)
    BY <2>1 DEF StepShape
  <2> QED
    BY <2>2, <2>3, <2>4, <2>5, <2>6, <2>7, RestTyped
<1>5. CASE Change
  <2>1. /\ account' \in [Emails -> Details \cup {NoAccount, Staff}]
        /\ orderly' \in BOOLEAN /\ UNCHANGED <<otps, issued, req, granted, created>>
    BY <1>5, ChangeShape
  <2> QED
    BY <2>1 DEF TypeInv, TypeOK, OtpsIssued, OtpsBounded, RequestsIssued, Issuing
<1> QED
  BY <1>1, <1>2, <1>3, <1>4, <1>5, CreateTyped DEF Next

LEMMA Typed == Spec => []TypeInv
<1>1. Init => TypeInv
  <2> SUFFICES ASSUME Init PROVE TypeInv
    OBVIOUS
  <2>1. Issuing = {} /\ Cardinality(Issuing) = 0
    BY FS_EmptySet DEF Init, Issuing
  <2> QED
    BY <2>1, OtpsAssumption
       DEF Init, TypeInv, TypeOK, OtpsIssued, OtpsBounded, RequestsIssued
<1> QED
  BY <1>1, NextTyped, PTL DEF Spec

\* The rows and the requests keep their types, and no two rows have one id, for
\* any emails, details, requests and number of codes (AuthService, EmailOtp).
THEOREM TypeCorrect == Spec => []TypeOK
<1>1. TypeInv => TypeOK
  BY DEF TypeInv
<1> QED
  BY Typed, <1>1, PTL

-----------------------------------------------------------------------------
(* The rows, and what requests have read of them *)

\* A request still knows what its row holds; a code for a forgotten password
\* carries no details; a registration code that was verified has created an
\* account.
MatchInv ==
  /\ \A o \in otps : o.purpose = "FORGOT_PASSWORD" => o.details = NoDetails
  /\ \A r \in Requests :
       req[r] # Idle /\ req[r].op = "customerForgotPassword" => req[r].details = NoDetails
  /\ \A r \in Requests : Verifying(r) =>
       \A o \in RowOf(req[r].otp) :
         /\ o.email = req[r].email
         /\ req[r].op = "verifyOtp" => o.details = req[r].details
         /\ req[r].op = "verifyForgotPasswordOtp" => o.purpose = "FORGOT_PASSWORD"
  /\ \A o \in otps :
       o.isVerified /\ o.purpose = "REGISTRATION" => created[o.id] >= 1

\* A request may change in any way that what it holds still agrees with the
\* rows.
LEMMA MatchRest ==
  ASSUME TypeInv, MatchInv, NEW r \in Requests, OthersSame(r),
         NEW A, NEW V, RowsFollow(A, V), created' = created,
         req'[r] # Idle /\ req'[r].op = "customerForgotPassword" =>
           req'[r].details = NoDetails,
         Verifying(r)' =>
           \A o \in otps : o.id = req'[r].otp =>
             /\ o.email = req'[r].email
             /\ req'[r].op = "verifyOtp" => o.details = req'[r].details
             /\ req'[r].op = "verifyForgotPasswordOtp" => o.purpose = "FORGOT_PASSWORD",
         \A o \in otps : o.id \in V => o.purpose = "FORGOT_PASSWORD"
  PROVE  MatchInv'
<1>1. \A p \in otps' : p.purpose = "FORGOT_PASSWORD" => p.details = NoDetails
  BY DEF MatchInv, RowsFollow, Follows
<1>2. \A s \in Requests :
        req'[s] # Idle /\ req'[s].op = "customerForgotPassword" =>
          req'[s].details = NoDetails
  BY DEF MatchInv, OthersSame
<1>3. ASSUME NEW s \in Requests, Verifying(s)', NEW p \in RowOf(req[s].otp)'
      PROVE  /\ p.email = req'[s].email
             /\ req'[s].op = "verifyOtp" => p.details = req'[s].details
             /\ req'[s].op = "verifyForgotPasswordOtp" => p.purpose = "FORGOT_PASSWORD"
  <2>1. PICK o \in otps : Follows(o, p, A, V)
    BY <1>3 DEF RowOf, RowsFollow
  <2>2. o.id = req'[s].otp
    BY <1>3, <2>1 DEF RowOf, Follows
  <2>3. CASE s = r
    BY <1>3, <2>1, <2>2, <2>3 DEF Follows
  <2>4. CASE s # r
    <3>1. req'[s] = req[s]
      BY <2>4 DEF OthersSame
    <3>2. Verifying(s) /\ o \in RowOf(req[s].otp)
      BY <1>3, <2>2, <3>1 DEF Verifying, RowOf
    <3> QED
      BY <2>1, <3>1, <3>2 DEF MatchInv, Follows
  <2> QED
    BY <2>3, <2>4
<1>4. ASSUME NEW p \in otps', p.isVerified, p.purpose = "REGISTRATION"
      PROVE  created'[p.id] >= 1
  <2>1. PICK o \in otps : Follows(o, p, A, V)
    BY DEF RowsFollow
  <2>2. o.isVerified /\ o.purpose = "REGISTRATION"
    BY <1>4, <2>1 DEF Follows
  <2> QED
    BY <2>1, <2>2 DEF MatchInv, Follows
<1> QED
  BY <1>1, <1>2, <1>3, <1>4 DEF MatchInv

\* The account that a code makes is the one it was asked for.
LEMMA CommitMatches ==
  ASSUME TypeInv, MatchInv, NEW r \in Requests, VerifyOtpCommit(r),
         ~UNCHANGED <<account, otps, created>>
  PROVE  \E o \in otps :
           /\ RowOf(req[r].otp) = {o} /\ o.id = req[r].otp
           /\ o.email \in Emails /\ o.email = req[r].email
           /\ account[o.email] = NoAccount
           /\ o.purpose = "REGISTRATION" /\ o.details \in Details
           /\ account' = [account EXCEPT ![o.email] = o.details]
           /\ created' = [created EXCEPT ![o.id] = @ + 1]
           /\ otps' = MarkVerified(RowOf(req[r].otp))
<1>1. /\ At(r, "verifyOtp", "commit")
      /\ account[req[r].email] = NoAccount /\ req[r].details # NoDetails
      /\ RowOf(req[r].otp) # {}
      /\ account' = [account EXCEPT ![req[r].email] = req[r].details]
      /\ created' = [created EXCEPT ![req[r].otp] = @ + 1]
      /\ otps' = MarkVerified(RowOf(req[r].otp))
  BY DEF VerifyOtpCommit, CreateAccount
<1>2. Verifying(r) /\ req[r].op = "verifyOtp" /\ req[r] \in InFlight
  BY <1>1 DEF Verifying, At, TypeInv, TypeOK
<1>3. PICK o : o \in RowOf(req[r].otp)
  BY <1>1
<1>4. RowOf(req[r].otp) = {o} /\ o \in otps /\ o.id = req[r].otp
  BY <1>3 DEF RowOf, TypeInv, TypeOK
<1>5. o.email = req[r].email /\ o.details = req[r].details
  BY <1>2, <1>3 DEF MatchInv
<1>6. o.purpose \in Purposes /\ o.email \in Emails /\ o.details \in Details
  BY <1>1, <1>4, <1>5 DEF TypeInv, TypeOK, EmailOtp
<1>7. o.purpose = "REGISTRATION"
  BY <1>1, <1>4, <1>5, <1>6 DEF MatchInv, Purposes
<1> QED
  BY <1>1, <1>4, <1>5, <1>6, <1>7

LEMMA CommitKeepsMatch ==
  ASSUME TypeInv, MatchInv, NEW r \in Requests, VerifyOtpCommit(r),
         ~UNCHANGED <<account, otps, created>>
  PROVE  MatchInv'
<1>1. PICK o \in otps :
        /\ o.id = req[r].otp
        /\ created' = [created EXCEPT ![o.id] = @ + 1]
        /\ otps' = MarkVerified(RowOf(req[r].otp))
  BY CommitMatches
<1>2. req' = [req EXCEPT ![r] = Idle]
  BY DEF VerifyOtpCommit, Finish
<1>3. RowsFollow({}, {req[r].otp}) /\ req'[r] = Idle /\ OthersSame(r)
  BY <1>1, <1>2, MarkRows, EndRecord DEF TypeInv
<1>4. \A p \in otps' : p.purpose = "FORGOT_PASSWORD" => p.details = NoDetails
  BY <1>3 DEF MatchInv, RowsFollow, Follows
<1>5. \A s \in Requests :
        req'[s] # Idle /\ req'[s].op = "customerForgotPassword" =>
          req'[s].details = NoDetails
  BY <1>3 DEF MatchInv, OthersSame
<1>6. ASSUME NEW s \in Requests, Verifying(s)', NEW p \in RowOf(req[s].otp)'
      PROVE  /\ p.email = req'[s].email
             /\ req'[s].op = "verifyOtp" => p.details = req'[s].details
             /\ req'[s].op = "verifyForgotPasswordOtp" => p.purpose = "FORGOT_PASSWORD"
  <2>1. req'[s] = req[s]
    BY <1>3, <1>6 DEF OthersSame, Verifying
  <2>2. PICK x \in otps : Follows(x, p, {}, {req[r].otp})
    BY <1>3, <1>6 DEF RowOf, RowsFollow
  <2>3. Verifying(s) /\ x \in RowOf(req[s].otp)
    BY <1>6, <2>1, <2>2 DEF Verifying, RowOf, Follows
  <2> QED
    BY <2>1, <2>2, <2>3 DEF MatchInv, Follows
<1>7. ASSUME NEW p \in otps', p.isVerified, p.purpose = "REGISTRATION"
      PROVE  created'[p.id] >= 1
  <2>1. PICK x \in otps : Follows(x, p, {}, {req[r].otp})
    BY <1>3 DEF RowsFollow
  <2>2. p.id = x.id /\ x.purpose = "REGISTRATION" /\ created[x.id] \in Nat /\ x.id \in 1..MaxOtps
    BY <1>7, <2>1 DEF Follows, TypeInv, TypeOK, EmailOtp
  <2>3. CASE x.id = req[r].otp
    BY <1>1, <2>2, <2>3 DEF TypeInv, TypeOK
  <2>4. CASE x.id # req[r].otp
    <3>1. created[x.id] >= 1
      BY <1>7, <2>1, <2>2, <2>4 DEF Follows, MatchInv
    <3> QED
      BY <1>1, <2>2, <2>4, <3>1 DEF TypeInv, TypeOK
  <2> QED
    BY <2>3, <2>4
<1> QED
  BY <1>4, <1>5, <1>6, <1>7 DEF MatchInv

LEMMA CreateKeepsMatch ==
  ASSUME TypeInv, MatchInv, NEW r \in Requests, CreateOtp(r)
  PROVE  MatchInv'
<1>1. PICK n \in EmailOtp :
        /\ otps' = otps \cup {n} /\ n.id = issued + 1 /\ ~n.isVerified
        /\ n.purpose = IF req[r].op \in RegistrationOps THEN "REGISTRATION"
                       ELSE "FORGOT_PASSWORD"
        /\ n.details = req[r].details /\ req[r] # Idle
        /\ req[r].op \in RegistrationOps \cup {"customerForgotPassword"}
        /\ req'[r] = Idle /\ OthersSame(r) /\ created' = created
  BY CreateRow
<1>2. ASSUME NEW s \in Requests, Verifying(s)'
      PROVE  Verifying(s) /\ req'[s] = req[s] /\ RowOf(req[s].otp)' = RowOf(req[s].otp)
  <2>1. req'[s] = req[s] /\ Verifying(s)
    BY <1>1, <1>2 DEF OthersSame, Verifying
  <2>2. issued \in Nat /\ req[s].otp \in Nat /\ req[s].otp <= issued
    BY <2>1 DEF Verifying, TypeInv, TypeOK, InFlight, RequestsIssued
  <2>3. n.id # req[s].otp
    BY <1>1, <2>2
  <2> QED
    BY <1>1, <2>1, <2>3 DEF RowOf
<1>3. n.purpose = "FORGOT_PASSWORD" => n.details = NoDetails
  BY <1>1 DEF MatchInv
<1> QED
  BY <1>1, <1>2, <1>3 DEF MatchInv, OthersSame

\* The other statements create no account, and verify no code of a
\* registration.
LEMMA StepKeepsMatch ==
  ASSUME TypeInv, MatchInv, NEW r \in Requests, StepShape(r), created' = created,
         VerifyOtpCommit(r) => otps' = otps
  PROVE  MatchInv'
<1>1. /\ req'[r] # Idle /\ req'[r].op = "customerForgotPassword" =>
            req'[r].details = NoDetails
  BY DEF StepShape, GoesOn, MatchInv
<1>2. ASSUME Verifying(r)', NEW o \in otps, o.id = req'[r].otp
      PROVE  /\ o.email = req'[r].email
             /\ req'[r].op = "verifyOtp" => o.details = req'[r].details
             /\ req'[r].op = "verifyForgotPasswordOtp" => o.purpose = "FORGOT_PASSWORD"
  <2>1. Verifying(r) /\ o \in RowOf(req[r].otp) /\ GoesOn(r)
    BY <1>2 DEF StepShape, GoesOn, Verifying, RowOf
  <2> QED
    BY <2>1 DEF MatchInv, GoesOn, Verifying
<1>3. \E A, V : /\ RowsFollow(A, V)
                /\ \A o \in otps : o.id \in V => o.purpose = "FORGOT_PASSWORD"
  <2>1. CASE RowsFollow({}, {}) \/ RowsFollow({req[r].otp}, {})
    BY <2>1
  <2>2. CASE RowsFollow({}, {req[r].otp}) /\ At(r, "verifyForgotPasswordOtp", "mark")
    <3>1. \A o \in otps : o.id = req[r].otp => o.purpose = "FORGOT_PASSWORD"
      BY <2>2 DEF MatchInv, Verifying, At, RowOf
    <3> QED
      BY <2>2, <3>1
  <2>3. CASE otps' = otps
    BY <2>1, <2>3, RowsOnlyGo DEF TypeInv
  <2> QED
    BY <2>1, <2>2, <2>3 DEF StepShape
<1>4. OthersSame(r)
  BY DEF StepShape
<1> QED
  BY <1>1, <1>2, <1>3, <1>4, MatchRest

LEMMA NextMatches == TypeInv /\ MatchInv /\ [Next]_vars => MatchInv'
<1> SUFFICES ASSUME TypeInv, MatchInv, [Next]_vars PROVE MatchInv'
  OBVIOUS
<1>1. CASE UNCHANGED vars
  BY <1>1 DEF vars, MatchInv, Verifying, RowOf
<1>2. CASE Tick
  <2>1. RowsFollow({}, {}) /\ UNCHANGED <<created, req>>
    BY <1>2, TickRows DEF TypeInv, Tick
  <2> QED
    BY <2>1 DEF MatchInv, Verifying, RowOf, RowsFollow, Follows
<1>3. ASSUME NEW r \in Requests, NEW e \in Emails, Call(r, e)
      PROVE  MatchInv'
  <2>1. RowsFollow({}, {}) /\ OthersSame(r) /\ created' = created
    BY <1>3, CallShape, RowsOnlyGo DEF TypeInv
  <2>2. req'[r].op = "customerForgotPassword" => req'[r].details = NoDetails
    BY <1>3, CallShape
  <2>3. ASSUME Verifying(r)', NEW o \in otps, o.id = req'[r].otp
        PROVE  /\ o.email = req'[r].email
               /\ req'[r].op = "verifyOtp" => o.details = req'[r].details
               /\ req'[r].op = "verifyForgotPasswordOtp" => o.purpose = "FORGOT_PASSWORD"
    <3>1. \A x \in otps : x.id = o.id => x = o
      BY DEF TypeInv, TypeOK
    <3> QED
      BY <1>3, <2>3, <3>1, CallShape DEF Verifying, Pending, PendingForgot
  <2> QED
    BY <2>1, <2>2, <2>3, MatchRest
<1>4. ASSUME NEW r \in Requests, Step(r) \/ Fail(r), ~CreateOtp(r)
      PROVE  MatchInv'
  <2>1. StepShape(r)
    BY <1>4, StepShapes
  <2>2. CASE VerifyOtpCommit(r) /\ ~UNCHANGED <<account, otps, created>>
    BY <2>2, CommitKeepsMatch
  <2>3. CASE ~(VerifyOtpCommit(r) /\ ~UNCHANGED <<account, otps, created>>)
    BY <2>1, <2>3, StepKeepsMatch DEF StepShape
  <2> QED
    BY <2>2, <2>3
<1>5. CASE Change
  BY <1>5, ChangeShape DEF MatchInv, Verifying, RowOf
<1> QED
  BY <1>1, <1>2, <1>3, <1>4, <1>5, CreateKeepsMatch DEF Next

LEMMA Matched == Spec => [](TypeInv /\ MatchInv)
<1>1. Init => MatchInv
  BY DEF Init, MatchInv, Verifying
<1> QED
  BY <1>1, NextMatches, Typed, PTL DEF Spec

\* An account is only created from a registration code that no later call for
\* a code has deleted, for an email that has none, and with the details the
\* code was asked with (verifyOtp's transaction).
THEOREM LiveCodesCreate == Spec => OnlyLiveCodeCreates
<1> DEFINE live ==
             \A id \in 1..issued :
               created'[id] # created[id] =>
                 \E o \in RowOf(id) :
                   /\ o.purpose = "REGISTRATION"
                   /\ account[o.email] = NoAccount /\ account'[o.email] = o.details
<1>1. TypeInv /\ MatchInv /\ [Next]_vars => [live]_vars
  <2> SUFFICES ASSUME TypeInv, MatchInv, [Next]_vars, NEW id \in 1..issued,
                      created'[id] # created[id]
               PROVE  \E o \in RowOf(id) :
                        /\ o.purpose = "REGISTRATION"
                        /\ account[o.email] = NoAccount /\ account'[o.email] = o.details
    OBVIOUS
  <2>1. PICK r \in Requests : VerifyOtpCommit(r)
    BY CallShape, StepShapes, CreateRow, ChangeShape DEF Next, vars, Tick, StepShape
  <2>2. PICK o \in otps :
          /\ o.email \in Emails /\ account[o.email] = NoAccount
          /\ o.purpose = "REGISTRATION"
          /\ account' = [account EXCEPT ![o.email] = o.details]
          /\ created' = [created EXCEPT ![o.id] = @ + 1]
    BY <2>1, CommitMatches
  <2>3. o.id = id
    BY <2>2 DEF TypeInv, TypeOK
  <2> QED
    BY <2>2, <2>3 DEF TypeInv, TypeOK, RowOf
<1> QED
  BY <1>1, Matched, PTL DEF Spec, OnlyLiveCodeCreates

-----------------------------------------------------------------------------
(* Attempts and tokens, and requests that come one at a time *)

\* The requests that are about to count an attempt at a code.
Comparing(id) ==
  {r \in Requests : Verifying(r) /\ req[r].step = "count" /\ req[r].otp = id}

MayCompare ==
  IF orderly THEN MaxAttempts ELSE MaxAttempts + Cardinality(Requests) - 1

AttemptsInv ==
  \A o \in otps : o.attempts + Cardinality(Comparing(o.id)) <= MayCompare

LEMMA ComparingChange ==
  ASSUME NEW r \in Requests, OthersSame(r), NEW id
  PROVE  /\ IsFiniteSet(Comparing(id))
         /\ Comparing(id) \ {r} = Comparing(id)' \ {r}
BY RequestsAssumption, FS_Subset DEF Comparing, Verifying, OthersSame

\* There is a request when one does something.
LEMMA SomeRequest ==
  ASSUME NEW r \in Requests
  PROVE  Cardinality(Requests) \in Nat /\ Cardinality(Requests) >= 1
<1>1. IsFiniteSet({r}) /\ Cardinality({r}) = 1 /\ {r} \in SUBSET Requests
  BY FS_Singleton
<1> QED
  BY <1>1, RequestsAssumption, PartCount

LEMMA MayCompareStep ==
  ASSUME TypeInv, NEW r \in Requests, orderly' => orderly, orderly' \in BOOLEAN
  PROVE  /\ MayCompare \in Nat /\ MayCompare' \in Nat /\ MayCompare <= MayCompare'
         /\ MaxAttempts <= MayCompare'
<1>1. orderly \in BOOLEAN
  BY DEF TypeInv, TypeOK
<1> QED
  BY <1>1, SomeRequest, TimesAssumption DEF MayCompare

LEMMA MayCompareChange ==
  ASSUME TypeInv, Change
  PROVE  MayCompare <= MayCompare'
<1>1. MayCompare \in Nat \/ MayCompare \in Int
  BY RequestsAssumption, FS_CardinalityType, TimesAssumption DEF MayCompare
<1>2. CASE orderly' = orderly
  BY <1>1, <1>2 DEF MayCompare
<1>3. CASE \E r \in Requests : req[r] # Idle
  BY <1>3, ChangeShape, MayCompareStep
<1> QED
  BY <1>2, <1>3, ChangeShape

\* An attempt that is counted is no longer owed, and no other is owed anew.
LEMMA AttemptsRest ==
  ASSUME TypeInv, AttemptsInv, NEW r \in Requests, OthersSame(r),
         NEW A, NEW V, RowsFollow(A, V), orderly' => orderly, orderly' \in BOOLEAN,
         \A o \in otps : r \in Comparing(o.id)' => r \in Comparing(o.id),
         \A o \in otps :
           o.id \in A => r \in Comparing(o.id) /\ r \notin Comparing(o.id)'
  PROVE  AttemptsInv'
<1> SUFFICES ASSUME NEW p \in otps'
             PROVE  p.attempts + Cardinality(Comparing(p.id)') <= MayCompare'
  BY DEF AttemptsInv
<1>1. PICK o \in otps : Follows(o, p, A, V)
  BY DEF RowsFollow
<1>2. /\ p.id = o.id /\ p.attempts = o.attempts + IF o.id \in A THEN 1 ELSE 0
      /\ o.attempts \in Nat
  BY <1>1 DEF Follows, TypeInv, TypeOK, EmailOtp
<1>3. /\ Cardinality(Comparing(o.id)) \in Nat /\ Cardinality(Comparing(o.id)') \in Nat
      /\ Cardinality(Comparing(o.id)') <= Cardinality(Comparing(o.id))
      /\ o.id \in A => Cardinality(Comparing(o.id)') = Cardinality(Comparing(o.id)) - 1
  BY ComparingChange, CountChange
<1>4. o.attempts + Cardinality(Comparing(o.id)) <= MayCompare
  BY DEF AttemptsInv
<1> QED
  BY <1>2, <1>3, <1>4, MayCompareStep

\* A call with a code is let in below the limit; while requests come one at a
\* time, it is the only one.
LEMMA CallKeepsAttempts ==
  ASSUME TypeInv, AttemptsInv, NEW r \in Requests, NEW e \in Emails, Call(r, e)
  PROVE  AttemptsInv'
<1>1. /\ req[r] = Idle /\ OthersSame(r) /\ orderly' = (orderly /\ Alone) /\ otps' = otps
      /\ orderly' \in BOOLEAN /\ (orderly' => orderly)
  BY CallShape DEF Alone
<1>2. CASE ~Verifying(r)'
  <2>1. \A o \in otps : r \notin Comparing(o.id)'
    BY <1>2 DEF Comparing
  <2>2. RowsFollow({}, {})
    BY <1>1, RowsOnlyGo DEF TypeInv
  <2> QED
    BY <1>1, <2>1, <2>2, AttemptsRest
<1>3. CASE Verifying(r)'
  <2>1. PICK x \in otps : req'[r].otp = x.id /\ x.attempts < MaxAttempts
    BY <1>3, CallShape DEF Verifying, Pending, PendingForgot
  <2> SUFFICES ASSUME NEW o \in otps
               PROVE  o.attempts + Cardinality(Comparing(o.id)') <= MayCompare'
    BY <1>1 DEF AttemptsInv
  <2>2. o.attempts \in Nat /\ o.attempts + Cardinality(Comparing(o.id)) <= MayCompare
    BY DEF AttemptsInv, TypeInv, TypeOK, EmailOtp
  <2>3. CASE o.id # x.id
    <3>1. r \notin Comparing(o.id) /\ r \notin Comparing(o.id)'
      BY <1>1, <2>1, <2>3 DEF Comparing, Verifying
    <3>2. /\ Cardinality(Comparing(o.id)) \in Nat
          /\ Cardinality(Comparing(o.id)') = Cardinality(Comparing(o.id))
      BY <1>1, <3>1, ComparingChange, CountChange
    <3> QED
      BY <1>1, <2>2, <3>2, MayCompareStep
  <2>4. CASE o.id = x.id
    <3>1. o.attempts < MaxAttempts
      BY <2>1, <2>4 DEF TypeInv, TypeOK
    <3>2. CASE orderly'
      <4>0. Alone
        BY <1>1, <3>2
      <4>1. \A s \in Requests \ {r} : req'[s] = Idle
        BY <1>1, <4>0 DEF Alone, OthersSame
      <4>2. \A s, t \in Comparing(o.id)' : s = t
        BY <4>1 DEF Comparing, Verifying
      <4>3. Cardinality(Comparing(o.id)') \in 0..1
        BY <4>2, AtMostOne
      <4> QED
        BY <2>2, <3>1, <3>2, <4>3, TimesAssumption DEF MayCompare
    <3>3. CASE ~orderly'
      <4>1. Comparing(o.id)' \in SUBSET Requests
        BY DEF Comparing
      <4>2. /\ Cardinality(Comparing(o.id)') \in Nat /\ Cardinality(Requests) \in Nat
            /\ Cardinality(Comparing(o.id)') <= Cardinality(Requests)
        BY <4>1, RequestsAssumption, PartCount
      <4> QED
        BY <2>2, <3>1, <3>3, <4>2, TimesAssumption DEF MayCompare
    <3> QED
      BY <3>2, <3>3
  <2> QED
    BY <2>3, <2>4
<1> QED
  BY <1>2, <1>3

\* Nobody compares a code that is new.
LEMMA CreateKeepsAttempts ==
  ASSUME TypeInv, AttemptsInv, NEW r \in Requests, CreateOtp(r)
  PROVE  AttemptsInv'
<1>1. PICK n \in EmailOtp :
        /\ otps' = otps \cup {n} /\ n.id = issued + 1 /\ n.attempts = 0
        /\ req'[r] = Idle /\ OthersSame(r) /\ orderly' = orderly
  BY CreateRow
<1>2. orderly' \in BOOLEAN
  BY <1>1 DEF TypeInv, TypeOK
<1> SUFFICES ASSUME NEW o \in otps'
             PROVE  o.attempts + Cardinality(Comparing(o.id)') <= MayCompare'
  BY DEF AttemptsInv
<1>3. CASE o \in otps
  <2>1. r \notin Comparing(o.id)'
    BY <1>1 DEF Comparing, Verifying
  <2>2. /\ Cardinality(Comparing(o.id)) \in Nat /\ Cardinality(Comparing(o.id)') \in Nat
        /\ Cardinality(Comparing(o.id)') <= Cardinality(Comparing(o.id))
    BY <1>1, <2>1, ComparingChange, CountChange
  <2>3. o.attempts \in Nat /\ o.attempts + Cardinality(Comparing(o.id)) <= MayCompare
    BY <1>3 DEF AttemptsInv, TypeInv, TypeOK, EmailOtp
  <2> QED
    BY <1>1, <1>2, <2>2, <2>3, MayCompareStep
<1>4. CASE o = n
  <2>1. ASSUME NEW s \in Comparing(n.id)'
        PROVE  FALSE
    <3>1. s \in Requests /\ req[s] # Idle /\ req[s].otp = issued + 1
      BY <1>1, <2>1 DEF Comparing, Verifying, OthersSame
    <3>2. issued \in Nat /\ req[s].otp \in Nat /\ req[s].otp <= issued
      BY <3>1 DEF TypeInv, TypeOK, RequestsIssued, InFlight
    <3> QED
      BY <3>1, <3>2
  <2>2. Cardinality(Comparing(n.id)') = 0
    BY <2>1, FS_EmptySet
  <2> QED
    BY <1>1, <1>2, <1>4, <2>2, MayCompareStep
<1> QED
  BY <1>1, <1>3, <1>4

LEMMA NextKeepsAttempts == TypeInv /\ AttemptsInv /\ [Next]_vars => AttemptsInv'
<1> SUFFICES ASSUME TypeInv, AttemptsInv, [Next]_vars PROVE AttemptsInv'
  OBVIOUS
<1>1. CASE UNCHANGED vars
  BY <1>1 DEF vars, AttemptsInv, Comparing, Verifying, MayCompare
<1>2. CASE Tick
  <2>1. RowsFollow({}, {}) /\ UNCHANGED <<req, orderly>>
    BY <1>2, TickRows DEF TypeInv, Tick
  <2>2. ASSUME NEW p \in otps'
        PROVE  \E o \in otps : p.id = o.id /\ p.attempts = o.attempts
    <3>1. \A o \in otps : o.attempts \in Nat
      BY DEF TypeInv, TypeOK, EmailOtp
    <3> QED
      BY <2>1, <3>1 DEF RowsFollow, Follows
  <2> QED
    BY <2>1, <2>2 DEF AttemptsInv, Comparing, Verifying, MayCompare
<1>3. ASSUME NEW r \in Requests, Step(r) \/ Fail(r), ~CreateOtp(r)
      PROVE  AttemptsInv'
  <2>1. StepShape(r)
    BY <1>3, StepShapes
  <2>2. OthersSame(r) /\ (orderly' => orderly) /\ orderly' \in BOOLEAN
    BY <2>1 DEF StepShape
  <2>3. \A o \in otps : r \notin Comparing(o.id)'
    BY <2>1 DEF StepShape, GoesOn, Comparing, Verifying
  <2>4. CASE \E V : RowsFollow({}, V)
    BY <2>2, <2>3, <2>4, AttemptsRest
  <2>5. CASE RowsFollow({req[r].otp}, {}) /\ Verifying(r) /\ req[r].step = "count"
    <3>1. \A o \in otps : o.id \in {req[r].otp} => r \in Comparing(o.id)
      BY <2>5 DEF Comparing
    <3> QED
      BY <2>2, <2>3, <2>5, <3>1, AttemptsRest
  <2> QED
    BY <2>1, <2>4, <2>5 DEF StepShape
<1>4. CASE Change
  <2>1. UNCHANGED <<otps, req>>
    BY <1>4, ChangeShape
  <2>2. ASSUME NEW o \in otps
        PROVE  o.attempts + Cardinality(Comparing(o.id)) <= MayCompare'
    <3>1. /\ o.attempts + Cardinality(Comparing(o.id)) <= MayCompare
          /\ o.attempts \in Nat
      BY DEF AttemptsInv, TypeInv, TypeOK, EmailOtp
    <3>2. Comparing(o.id) \in SUBSET Requests
      BY DEF Comparing
    <3>3. Cardinality(Comparing(o.id)) \in Nat /\ Cardinality(Requests) \in Nat
      BY <3>2, RequestsAssumption, PartCount
    <3>4. MayCompare \in Int /\ MayCompare' \in Int
      BY <3>3, TimesAssumption DEF MayCompare
    <3> QED
      BY <1>4, <3>1, <3>3, <3>4, MayCompareChange
  <2> QED
    BY <2>1, <2>2 DEF AttemptsInv, Comparing, Verifying
<1> QED
  BY <1>1, <1>2, <1>3, <1>4, CallKeepsAttempts, CreateKeepsAttempts DEF Next

\* A code is compared MaxAttempts times at most, and when requests race to be
\* counted, once more for each of the others (verifyOtp and
\* verifyForgotPasswordOtp, which check the attempts before they count one).
THEOREM AttemptsAreBounded == Spec => []AttemptsBounded
<1>1. Init => AttemptsInv
  BY DEF Init, AttemptsInv
<1>2. TypeInv /\ AttemptsInv => AttemptsBounded
  <2> SUFFICES ASSUME TypeInv, AttemptsInv, NEW o \in otps
               PROVE  o.attempts <= MayCompare
    BY DEF AttemptsBounded, MayCompare
  <2>1. Comparing(o.id) \in SUBSET Requests
    BY DEF Comparing
  <2>2. Cardinality(Comparing(o.id)) \in Nat /\ Cardinality(Requests) \in Nat
    BY <2>1, RequestsAssumption, PartCount
  <2>3. o.attempts \in Nat /\ o.attempts + Cardinality(Comparing(o.id)) <= MayCompare
    BY DEF AttemptsInv, TypeInv, TypeOK, EmailOtp
  <2> QED
    BY <2>2, <2>3, TimesAssumption DEF MayCompare
<1> QED
  BY <1>1, <1>2, NextKeepsAttempts, Typed, PTL DEF Spec

\* The requests that may still exchange a code.
Exchanging(id) ==
  {r \in Requests : req[r] # Idle /\ req[r].op = "verifyForgotPasswordOtp"
                      /\ req[r].otp = id}

Once == IF orderly THEN 1 ELSE Cardinality(Requests)

GrantInv ==
  /\ \A o \in otps : granted[o.id] > 0 => o.isVerified
  /\ \A r \in Requests : At(r, "verifyForgotPasswordOtp", "grant") =>
       \A o \in RowOf(req[r].otp) : o.isVerified
  /\ \A id \in 1..MaxOtps :
       /\ id > issued => granted[id] = 0
       /\ granted[id] + Cardinality(Exchanging(id)) <= Once

LEMMA ExchangingChange ==
  ASSUME NEW r \in Requests, OthersSame(r), NEW id
  PROVE  /\ IsFiniteSet(Exchanging(id))
         /\ Exchanging(id) \ {r} = Exchanging(id)' \ {r}
BY RequestsAssumption, FS_Subset DEF Exchanging, OthersSame

LEMMA OnceStep ==
  ASSUME TypeInv, NEW r \in Requests, orderly' => orderly, orderly' \in BOOLEAN
  PROVE  /\ Once \in Nat /\ Once' \in Nat /\ Once <= Once'
         /\ 1 <= Once'
<1>1. orderly \in BOOLEAN
  BY DEF TypeInv, TypeOK
<1> QED
  BY <1>1, SomeRequest DEF Once

LEMMA OnceChange ==
  ASSUME TypeInv, Change
  PROVE  Once \in Nat /\ Once' \in Nat /\ Once <= Once'
<1>1. Once \in Nat /\ Once' \in Nat
  BY RequestsAssumption, FS_CardinalityType DEF Once
<1>2. CASE orderly' = orderly
  BY <1>1, <1>2 DEF Once
<1>3. CASE \E r \in Requests : req[r] # Idle
  BY <1>3, ChangeShape, OnceStep
<1> QED
  BY <1>1, <1>2, <1>3, ChangeShape

\* The rows that follow stay verified, and the new state of a request knows
\* of that.
LEMMA VerifiedStays ==
  ASSUME TypeInv, GrantInv, NEW r \in Requests, OthersSame(r),
         NEW A, NEW V, RowsFollow(A, V),
         At(r, "verifyForgotPasswordOtp", "grant")' =>
           \A o \in otps : o.id = req'[r].otp => o.isVerified \/ o.id \in V,
         \A o \in otps : granted'[o.id] # granted[o.id] => o.isVerified
  PROVE  /\ \A p \in otps' : granted'[p.id] > 0 => p.isVerified
         /\ \A s \in Requests : At(s, "verifyForgotPasswordOtp", "grant")' =>
              \A p \in RowOf(req[s].otp)' : p.isVerified
<1>1. ASSUME NEW p \in otps', granted'[p.id] > 0
      PROVE  p.isVerified
  BY <1>1 DEF GrantInv, RowsFollow, Follows
<1>2. ASSUME NEW s \in Requests, At(s, "verifyForgotPasswordOtp", "grant")',
             NEW p \in RowOf(req[s].otp)'
      PROVE  p.isVerified
  <2>1. PICK o \in otps : Follows(o, p, A, V)
    BY <1>2 DEF RowOf, RowsFollow
  <2>2. o.id = req'[s].otp
    BY <1>2, <2>1 DEF RowOf, Follows
  <2>3. CASE s = r
    BY <1>2, <2>1, <2>2, <2>3 DEF Follows
  <2>4. CASE s # r
    <3>1. At(s, "verifyForgotPasswordOtp", "grant") /\ o \in RowOf(req[s].otp)
      BY <1>2, <2>2, <2>4 DEF OthersSame, At, RowOf
    <3> QED
      BY <2>1, <3>1 DEF GrantInv, Follows
  <2> QED
    BY <2>3, <2>4
<1> QED
  BY <1>1, <1>2

\* The steps that grant nothing.
LEMMA GrantRest ==
  ASSUME TypeInv, GrantInv, NEW r \in Requests, OthersSame(r),
         orderly' => orderly, orderly' \in BOOLEAN, granted' = granted,
         issued' \in Nat, issued' >= issued,
         \A id \in 1..MaxOtps : r \in Exchanging(id)' => r \in Exchanging(id)
  PROVE  \A id \in 1..MaxOtps :
           /\ id > issued' => granted'[id] = 0
           /\ granted'[id] + Cardinality(Exchanging(id)') <= Once'
<1> SUFFICES ASSUME NEW id \in 1..MaxOtps
             PROVE  /\ id > issued' => granted[id] = 0
                    /\ granted[id] + Cardinality(Exchanging(id)') <= Once'
  OBVIOUS
<1>1. granted[id] \in Nat /\ issued \in Nat /\ id \in Nat
  BY OtpsAssumption DEF TypeInv, TypeOK
<1>2. /\ id > issued => granted[id] = 0
      /\ granted[id] + Cardinality(Exchanging(id)) <= Once
  BY DEF GrantInv
<1>3. /\ Cardinality(Exchanging(id)) \in Nat /\ Cardinality(Exchanging(id)') \in Nat
      /\ Cardinality(Exchanging(id)') <= Cardinality(Exchanging(id))
  BY ExchangingChange, CountChange
<1> QED
  BY <1>1, <1>2, <1>3, OnceStep

\* A code that was not yet verified lets the request in; while requests come
\* one at a time, it is the only one.
LEMMA CallKeepsGrants ==
  ASSUME TypeInv, GrantInv, NEW r \in Requests, NEW e \in Emails, Call(r, e)
  PROVE  GrantInv'
<1>1. /\ req[r] = Idle /\ OthersSame(r) /\ orderly' = (orderly /\ Alone)
      /\ UNCHANGED <<otps, issued, granted>>
      /\ orderly' \in BOOLEAN /\ (orderly' => orderly)
      /\ req'[r].step # "grant" /\ RowsFollow({}, {})
  BY CallShape, RowsOnlyGo DEF Alone, TypeInv
<1>2. /\ \A p \in otps' : granted'[p.id] > 0 => p.isVerified
      /\ \A s \in Requests : At(s, "verifyForgotPasswordOtp", "grant")' =>
           \A p \in RowOf(req[s].otp)' : p.isVerified
  <2>1. ~At(r, "verifyForgotPasswordOtp", "grant")' /\ granted' = granted
    BY <1>1 DEF At
  <2> QED
    BY <1>1, <2>1, VerifiedStays
<1>3. ASSUME NEW id \in 1..MaxOtps
      PROVE  /\ id > issued => granted[id] = 0
             /\ granted[id] + Cardinality(Exchanging(id)') <= Once'
  <2>1. /\ granted[id] \in Nat /\ (id > issued => granted[id] = 0)
        /\ granted[id] + Cardinality(Exchanging(id)) <= Once
    BY DEF GrantInv, TypeInv, TypeOK
  <2>2. CASE r \notin Exchanging(id)'
    <3>1. /\ Cardinality(Exchanging(id)) \in Nat /\ Cardinality(Exchanging(id)') \in Nat
          /\ Cardinality(Exchanging(id)') <= Cardinality(Exchanging(id))
      BY <1>1, <2>2, ExchangingChange, CountChange
    <3> QED
      BY <1>1, <2>1, <3>1, OnceStep
  <2>3. CASE r \in Exchanging(id)'
    <3>1. PICK o \in PendingForgot(e) : o.id = id
      BY <2>3, CallShape DEF Exchanging
    <3>2. granted[id] = 0
      BY <2>1, <3>1 DEF GrantInv, PendingForgot, Pending
    <3>3. CASE orderly'
      <4>1. \A s \in Requests \ {r} : req'[s] = Idle
        BY <1>1, <3>3 DEF Alone, OthersSame
      <4>2. \A s, t \in Exchanging(id)' : s = t
        BY <4>1 DEF Exchanging
      <4>3. Cardinality(Exchanging(id)') \in 0..1
        BY <4>2, AtMostOne
      <4> QED
        BY <2>1, <3>2, <3>3, <4>3 DEF Once
    <3>4. CASE ~orderly'
      <4>1. Exchanging(id)' \in SUBSET Requests
        BY DEF Exchanging
      <4>2. /\ Cardinality(Exchanging(id)') \in Nat
            /\ Cardinality(Exchanging(id)') <= Cardinality(Requests)
        BY <4>1, RequestsAssumption, PartCount
      <4> QED
        BY <2>1, <3>2, <3>4, <4>2 DEF Once
    <3> QED
      BY <3>3, <3>4
  <2> QED
    BY <2>2, <2>3
<1> QED
  BY <1>1, <1>2, <1>3 DEF GrantInv

LEMMA CreateKeepsGrants ==
  ASSUME TypeInv, GrantInv, NEW r \in Requests, CreateOtp(r)
  PROVE  GrantInv'
<1>1. PICK n \in EmailOtp :
        /\ otps' = otps \cup {n} /\ n.id = issued + 1 /\ issued' = issued + 1
        /\ req'[r] = Idle /\ OthersSame(r) /\ UNCHANGED <<orderly, granted>>
  BY CreateRow
<1>2. /\ orderly' \in BOOLEAN /\ (orderly' => orderly) /\ issued \in Nat
      /\ issued' \in Nat /\ issued' >= issued /\ n.id > issued /\ n.id \in 1..MaxOtps
  BY <1>1 DEF TypeInv, TypeOK, EmailOtp
<1>3. \A id \in 1..MaxOtps :
        /\ id > issued' => granted'[id] = 0
        /\ granted'[id] + Cardinality(Exchanging(id)') <= Once'
  <2>1. \A id \in 1..MaxOtps : r \notin Exchanging(id)'
    BY <1>1 DEF Exchanging
  <2> QED
    BY <1>1, <1>2, <2>1, GrantRest
<1>4. granted[n.id] = 0
  BY <1>2 DEF GrantInv
<1>5. ASSUME NEW s \in Requests, At(s, "verifyForgotPasswordOtp", "grant")',
             NEW o \in RowOf(req[s].otp)'
      PROVE  o.isVerified
  <2>1. req'[s] = req[s] /\ req[s] # Idle
    BY <1>1, <1>5 DEF OthersSame, At
  <2>2. req[s].otp <= issued /\ req[s].otp \in Nat
    BY <2>1 DEF TypeInv, TypeOK, RequestsIssued, InFlight
  <2>3. o \in RowOf(req[s].otp)
    BY <1>1, <1>2, <1>5, <2>1, <2>2 DEF RowOf
  <2> QED
    BY <1>5, <2>1, <2>3 DEF GrantInv, At
<1> QED
  BY <1>1, <1>3, <1>4, <1>5 DEF GrantInv

\* The token that is granted is no longer owed.
LEMMA GrantKeepsGrants ==
  ASSUME TypeInv, GrantInv, NEW r \in Requests, GrantResetToken(r)
  PROVE  GrantInv'
<1> DEFINE n == req[r].otp
<1>1. /\ At(r, "verifyForgotPasswordOtp", "grant")
      /\ granted' = [granted EXCEPT ![n] = @ + 1] \/ granted' = granted
      /\ UNCHANGED <<otps, issued, orderly>> /\ req'[r] = Idle /\ OthersSame(r)
  BY EndRecord DEF GrantResetToken, Finish, TypeInv
<1>2. n \in Nat /\ n <= issued /\ issued \in Nat
  BY <1>1 DEF At, TypeInv, TypeOK, RequestsIssued, InFlight
<1>3. RowsFollow({}, {}) /\ orderly' \in BOOLEAN
  BY <1>1, RowsOnlyGo DEF TypeInv, TypeOK
<1>4. /\ \A p \in otps' : granted'[p.id] > 0 => p.isVerified
      /\ \A s \in Requests : At(s, "verifyForgotPasswordOtp", "grant")' =>
           \A p \in RowOf(req[s].otp)' : p.isVerified
  <2>1. ~At(r, "verifyForgotPasswordOtp", "grant")'
    BY <1>1 DEF At
  <2>2. ASSUME NEW o \in otps, granted'[o.id] # granted[o.id]
        PROVE  o.isVerified
    <3>1. o.id = n
      BY <1>1, <2>2 DEF TypeInv, TypeOK, EmailOtp
    <3> QED
      BY <1>1, <3>1 DEF GrantInv, RowOf
  <2> QED
    BY <1>1, <1>3, <2>1, <2>2, VerifiedStays
<1>5. ASSUME NEW id \in 1..MaxOtps
      PROVE  /\ id > issued => granted'[id] = 0
             /\ granted'[id] + Cardinality(Exchanging(id)') <= Once
  <2>1. /\ granted[id] \in Nat /\ (id > issued => granted[id] = 0)
        /\ granted[id] + Cardinality(Exchanging(id)) <= Once /\ id \in Nat
    BY OtpsAssumption DEF GrantInv, TypeInv, TypeOK
  <2>2. /\ granted'[id] \in Nat
        /\ granted'[id] <= granted[id] + IF id = n THEN 1 ELSE 0
    <3>1. granted \in [1..MaxOtps -> Nat]
      BY DEF TypeInv, TypeOK
    <3> HIDE DEF n
    <3>2. granted'[id] = granted[id] \/ (id = n /\ granted'[id] = granted[id] + 1)
      BY <1>1, <3>1
    <3> QED
      BY <2>1, <3>2
  <2>3. r \notin Exchanging(id)' /\ (r \in Exchanging(id) <=> id = n)
    BY <1>1 DEF Exchanging, At
  <2>4. /\ Cardinality(Exchanging(id)) \in Nat
        /\ Cardinality(Exchanging(id)') =
             Cardinality(Exchanging(id)) - IF id = n THEN 1 ELSE 0
    BY <1>1, <2>3, ExchangingChange, CountChange
  <2>5. Once \in Nat
    BY RequestsAssumption, FS_CardinalityType DEF Once
  <2>6. id # n => granted'[id] = granted[id]
    BY <1>1 DEF TypeInv, TypeOK
  <2> HIDE DEF n
  <2> QED
    BY <1>2, <2>1, <2>2, <2>4, <2>5, <2>6
<1> QED
  BY <1>1, <1>4, <1>5 DEF GrantInv, Once

LEMMA NextKeepsGrants == TypeInv /\ GrantInv /\ [Next]_vars => GrantInv'
<1> SUFFICES ASSUME TypeInv, GrantInv, [Next]_vars PROVE GrantInv'
  OBVIOUS
<1>1. CASE UNCHANGED vars
  BY <1>1 DEF vars, GrantInv, Exchanging, Once, At, RowOf
<1>2. CASE Tick
  <2>1. RowsFollow({}, {}) /\ UNCHANGED <<issued, granted, req, orderly>>
    BY <1>2, TickRows DEF TypeInv, Tick
  <2> QED
    BY <2>1 DEF GrantInv, Exchanging, Once, At, RowOf, RowsFollow, Follows
<1>3. ASSUME NEW r \in Requests, Step(r) \/ Fail(r), ~CreateOtp(r), ~GrantResetToken(r)
      PROVE  GrantInv'
  <2>1. StepShape(r)
    BY <1>3, StepShapes
  <2>2. /\ OthersSame(r) /\ (orderly' => orderly) /\ orderly' \in BOOLEAN
        /\ granted' = granted /\ issued' = issued
    BY <1>3, <2>1 DEF StepShape
  <2>3. issued' \in Nat /\ issued' >= issued
    BY <2>2 DEF TypeInv, TypeOK
  <2>4. \A id \in 1..MaxOtps : r \in Exchanging(id)' => r \in Exchanging(id)
    BY <2>1 DEF StepShape, GoesOn, Exchanging
  <2>5. \A id \in 1..MaxOtps :
          /\ id > issued' => granted'[id] = 0
          /\ granted'[id] + Cardinality(Exchanging(id)') <= Once'
    BY <2>2, <2>3, <2>4, GrantRest
  <2>6. \E A, V :
          /\ RowsFollow(A, V)
          /\ At(r, "verifyForgotPasswordOtp", "grant")' =>
               \A o \in otps : o.id = req'[r].otp => o.isVerified \/ o.id \in V
    <3>1. CASE At(r, "verifyForgotPasswordOtp", "grant")'
      <4>1. req'[r].otp = req[r].otp /\ RowsFollow({}, {req[r].otp})
        BY <2>1, <3>1 DEF StepShape, GoesOn, At
      <4> QED
        BY <4>1
    <3>2. CASE ~At(r, "verifyForgotPasswordOtp", "grant")'
      BY <2>1, <3>2 DEF StepShape
    <3> QED
      BY <3>1, <3>2
  <2>7. /\ \A p \in otps' : granted'[p.id] > 0 => p.isVerified
        /\ \A s \in Requests : At(s, "verifyForgotPasswordOtp", "grant")' =>
             \A p \in RowOf(req[s].otp)' : p.isVerified
    BY <2>2, <2>6, VerifiedStays
  <2> QED
    BY <2>5, <2>7 DEF GrantInv
<1>4. CASE Change
  <2>1. UNCHANGED <<otps, issued, req, granted>>
    BY <1>4, ChangeShape
  <2>2. ASSUME NEW id \in 1..MaxOtps
        PROVE  granted[id] + Cardinality(Exchanging(id)) <= Once'
    <3>1. Exchanging(id) \in SUBSET Requests
      BY DEF Exchanging
    <3>2. Cardinality(Exchanging(id)) \in Nat /\ granted[id] \in Nat
      BY <3>1, RequestsAssumption, PartCount DEF TypeInv, TypeOK
    <3>3. granted[id] + Cardinality(Exchanging(id)) <= Once
      BY DEF GrantInv
    <3> QED
      BY <1>4, <3>2, <3>3, OnceChange
  <2> QED
    BY <2>1, <2>2 DEF GrantInv, Exchanging, At, RowOf
<1> QED
  BY <1>1, <1>2, <1>3, <1>4, CallKeepsGrants, CreateKeepsGrants, GrantKeepsGrants DEF Next

\* A code is exchanged for one reset token; of requests that verify it at the
\* same time each gets one at most (verifyForgotPasswordOtp).
THEOREM CodesGrantOnce == Spec => []CodeGrantsOnce
<1>1. Init => GrantInv
  <2> SUFFICES ASSUME Init, NEW id \in 1..MaxOtps
               PROVE  /\ granted[id] = 0
                      /\ granted[id] + Cardinality(Exchanging(id)) <= Once
    BY DEF Init, GrantInv, At
  <2>1. granted[id] = 0 /\ Once = 1 /\ Exchanging(id) = {}
    BY DEF Init, Once, Exchanging
  <2> QED
    BY <2>1, FS_EmptySet
<1>2. TypeInv /\ GrantInv => CodeGrantsOnce
  <2> SUFFICES ASSUME TypeInv, GrantInv, NEW id \in 1..issued
               PROVE  granted[id] <= Once
    BY DEF CodeGrantsOnce, Once
  <2>1. id \in 1..MaxOtps
    BY OtpsAssumption DEF TypeInv, TypeOK
  <2>2. Exchanging(id) \in SUBSET Requests
    BY DEF Exchanging
  <2>3. Cardinality(Exchanging(id)) \in Nat /\ Cardinality(Requests) \in Nat
    BY <2>2, RequestsAssumption, PartCount
  <2>4. granted[id] \in Nat /\ granted[id] + Cardinality(Exchanging(id)) <= Once
    BY <2>1 DEF TypeInv, TypeOK, GrantInv
  <2> QED
    BY <2>3, <2>4 DEF Once
<1> QED
  BY <1>1, <1>2, NextKeepsGrants, Typed, PTL DEF Spec

-----------------------------------------------------------------------------
(* Accounts that a code creates *)

\* The requests that may still create an account from a code.
Registering(id) ==
  {r \in Requests : req[r] # Idle /\ req[r].op = "verifyOtp" /\ req[r].otp = id}

CreatedInv ==
  /\ \A o \in otps : created[o.id] > 0 => o.isVerified
  /\ \A id \in 1..MaxOtps :
       /\ id > issued => created[id] = 0
       /\ created[id] + Cardinality(Registering(id)) <= Once

LEMMA RegisteringChange ==
  ASSUME NEW r \in Requests, OthersSame(r), NEW id
  PROVE  /\ IsFiniteSet(Registering(id))
         /\ Registering(id) \ {r} = Registering(id)' \ {r}
BY RequestsAssumption, FS_Subset DEF Registering, OthersSame

\* The steps that create nothing.
LEMMA CreatedRest ==
  ASSUME TypeInv, CreatedInv, NEW r \in Requests, OthersSame(r),
         NEW A, NEW V, RowsFollow(A, V),
         orderly' => orderly, orderly' \in BOOLEAN, created' = created, issued' = issued,
         \A id \in 1..MaxOtps : r \in Registering(id)' => r \in Registering(id)
  PROVE  CreatedInv'
<1>1. \A p \in otps' : created'[p.id] > 0 => p.isVerified
  BY DEF CreatedInv, RowsFollow, Follows
<1>2. ASSUME NEW id \in 1..MaxOtps
      PROVE  /\ id > issued => created[id] = 0
             /\ created[id] + Cardinality(Registering(id)') <= Once'
  <2>1. created[id] \in Nat /\ issued \in Nat /\ id \in Nat
    BY OtpsAssumption DEF TypeInv, TypeOK
  <2>2. /\ id > issued => created[id] = 0
        /\ created[id] + Cardinality(Registering(id)) <= Once
    BY DEF CreatedInv
  <2>3. /\ Cardinality(Registering(id)) \in Nat /\ Cardinality(Registering(id)') \in Nat
        /\ Cardinality(Registering(id)') <= Cardinality(Registering(id))
    BY RegisteringChange, CountChange
  <2> QED
    BY <2>1, <2>2, <2>3, OnceStep
<1> QED
  BY <1>1, <1>2 DEF CreatedInv

\* A code that was not yet verified lets the request in; while requests come
\* one at a time, it is the only one.
LEMMA CallKeepsCreated ==
  ASSUME TypeInv, CreatedInv, NEW r \in Requests, NEW e \in Emails, Call(r, e)
  PROVE  CreatedInv'
<1>1. /\ req[r] = Idle /\ OthersSame(r) /\ orderly' = (orderly /\ Alone)
      /\ UNCHANGED <<otps, issued, created>>
      /\ orderly' \in BOOLEAN /\ (orderly' => orderly)
  BY CallShape DEF Alone
<1>2. ASSUME NEW id \in 1..MaxOtps
      PROVE  created[id] + Cardinality(Registering(id)') <= Once'
  <2>1. /\ created[id] \in Nat
        /\ created[id] + Cardinality(Registering(id)) <= Once
    BY DEF CreatedInv, TypeInv, TypeOK
  <2>2. CASE r \notin Registering(id)'
    <3>1. /\ Cardinality(Registering(id)) \in Nat /\ Cardinality(Registering(id)') \in Nat
          /\ Cardinality(Registering(id)') <= Cardinality(Registering(id))
      BY <1>1, <2>2, RegisteringChange, CountChange
    <3> QED
      BY <1>1, <2>1, <3>1, OnceStep
  <2>3. CASE r \in Registering(id)'
    <3>1. PICK o \in Pending(e) : o.id = id
      BY <2>3, CallShape DEF Registering
    <3>2. created[id] = 0
      BY <2>1, <3>1 DEF CreatedInv, Pending
    <3>3. CASE orderly'
      <4>0. Alone
        BY <1>1, <3>3
      <4>1. \A s \in Requests \ {r} : req'[s] = Idle
        BY <1>1, <4>0 DEF Alone, OthersSame
      <4>2. \A s, t \in Registering(id)' : s = t
        BY <4>1 DEF Registering
      <4>3. Cardinality(Registering(id)') \in 0..1
        BY <4>2, AtMostOne
      <4> QED
        BY <2>1, <3>2, <3>3, <4>3 DEF Once
    <3>4. CASE ~orderly'
      <4>1. Registering(id)' \in SUBSET Requests
        BY DEF Registering
      <4>2. /\ Cardinality(Registering(id)') \in Nat
            /\ Cardinality(Registering(id)') <= Cardinality(Requests)
        BY <4>1, RequestsAssumption, PartCount
      <4> QED
        BY <2>1, <3>2, <3>4, <4>2 DEF Once
    <3> QED
      BY <3>3, <3>4
  <2> QED
    BY <2>2, <2>3
<1> QED
  BY <1>1, <1>2 DEF CreatedInv

\* A new code has created nothing.
LEMMA CreateKeepsCreated ==
  ASSUME TypeInv, CreatedInv, NEW r \in Requests, CreateOtp(r)
  PROVE  CreatedInv'
<1>1. PICK n \in EmailOtp :
        /\ otps' = otps \cup {n} /\ n.id = issued + 1 /\ issued' = issued + 1
        /\ req'[r] = Idle /\ OthersSame(r) /\ UNCHANGED <<orderly, created>>
  BY CreateRow
<1>2. issued \in Nat /\ n.id > issued /\ n.id \in 1..MaxOtps /\ orderly \in BOOLEAN
  BY <1>1 DEF TypeInv, TypeOK, EmailOtp
<1>3. created[n.id] = 0
  BY <1>2 DEF CreatedInv
<1>4. ASSUME NEW id \in 1..MaxOtps
      PROVE  /\ id > issued' => created[id] = 0
             /\ created[id] + Cardinality(Registering(id)') <= Once'
  <2>1. /\ created[id] \in Nat /\ (id > issued => created[id] = 0) /\ id \in Nat
        /\ created[id] + Cardinality(Registering(id)) <= Once
    BY OtpsAssumption DEF CreatedInv, TypeInv, TypeOK
  <2>2. r \notin Registering(id)'
    BY <1>1 DEF Registering
  <2>3. /\ Cardinality(Registering(id)) \in Nat /\ Cardinality(Registering(id)') \in Nat
        /\ Cardinality(Registering(id)') <= Cardinality(Registering(id))
    BY <1>1, <2>2, RegisteringChange, CountChange
  <2> QED
    BY <1>1, <1>2, <2>1, <2>3, OnceStep
<1> QED
  BY <1>1, <1>3, <1>4 DEF CreatedInv

\* The account that is created is no longer owed, and its row is verified.
LEMMA CommitKeepsCreated ==
  ASSUME TypeInv, MatchInv, CreatedInv, NEW r \in Requests, VerifyOtpCommit(r),
         ~UNCHANGED <<account, otps, created>>
  PROVE  CreatedInv'
<1> DEFINE n == req[r].otp
<1>1. PICK o \in otps :
        /\ o.id = n /\ created' = [created EXCEPT ![o.id] = @ + 1]
        /\ otps' = MarkVerified(RowOf(n))
  BY CommitMatches
<1>2. /\ At(r, "verifyOtp", "commit") /\ UNCHANGED <<issued, orderly>>
      /\ req'[r] = Idle /\ OthersSame(r)
  BY EndRecord DEF VerifyOtpCommit, Finish, TypeInv
<1>3. RowsFollow({}, {n})
  BY <1>1, MarkRows DEF TypeInv
<1>4. n \in 1..MaxOtps /\ n \in Nat /\ n <= issued /\ issued \in Nat
  BY <1>1, OtpsAssumption DEF TypeInv, TypeOK, EmailOtp, OtpsIssued
<1>5. ASSUME NEW p \in otps', created'[p.id] > 0
      PROVE  p.isVerified
  <2>1. PICK x \in otps : Follows(x, p, {}, {n})
    BY <1>3 DEF RowsFollow
  <2>2. CASE x.id = n
    BY <2>1, <2>2 DEF Follows
  <2>3. CASE x.id # n
    <3>1. created'[p.id] = created[x.id]
      BY <1>1, <2>1, <2>3 DEF Follows, TypeInv, TypeOK, EmailOtp
    <3> QED
      BY <1>5, <2>1, <3>1 DEF CreatedInv, Follows
  <2> QED
    BY <2>2, <2>3
<1>6. ASSUME NEW id \in 1..MaxOtps
      PROVE  /\ id > issued => created'[id] = 0
             /\ created'[id] + Cardinality(Registering(id)') <= Once
  <2>1. /\ created[id] \in Nat /\ (id > issued => created[id] = 0)
        /\ created[id] + Cardinality(Registering(id)) <= Once /\ id \in Nat
    BY OtpsAssumption DEF CreatedInv, TypeInv, TypeOK
  <2>2. r \notin Registering(id)' /\ (r \in Registering(id) <=> id = n)
    BY <1>2 DEF Registering, At
  <2>3. /\ Cardinality(Registering(id)) \in Nat
        /\ Cardinality(Registering(id)') =
             Cardinality(Registering(id)) - IF id = n THEN 1 ELSE 0
    BY <1>2, <2>2, RegisteringChange, CountChange
  <2>4. Once \in Nat
    BY RequestsAssumption, FS_CardinalityType DEF Once
  <2>5. created'[id] = created[id] + IF id = n THEN 1 ELSE 0
    <3>1. created \in [1..MaxOtps -> Nat]
      BY DEF TypeInv, TypeOK
    <3> HIDE DEF n
    <3> QED
      BY <1>1, <2>1, <3>1
  <2> HIDE DEF n
  <2> QED
    BY <1>4, <2>1, <2>3, <2>4, <2>5
<1> QED
  BY <1>2, <1>5, <1>6 DEF CreatedInv, Once

LEMMA NextKeepsCreated ==
  TypeInv /\ MatchInv /\ CreatedInv /\ [Next]_vars => CreatedInv'
<1> SUFFICES ASSUME TypeInv, MatchInv, CreatedInv, [Next]_vars PROVE CreatedInv'
  OBVIOUS
<1>1. CASE UNCHANGED vars
  BY <1>1 DEF vars, CreatedInv, Registering, Once
<1>2. CASE Tick
  <2>1. RowsFollow({}, {}) /\ UNCHANGED <<issued, created, req, orderly>>
    BY <1>2, TickRows DEF TypeInv, Tick
  <2> QED
    BY <2>1 DEF CreatedInv, Registering, Once, RowsFollow, Follows
<1>3. ASSUME NEW r \in Requests, Step(r) \/ Fail(r), ~CreateOtp(r)
      PROVE  CreatedInv'
  <2>1. StepShape(r)
    BY <1>3, StepShapes
  <2>2. CASE VerifyOtpCommit(r) /\ ~UNCHANGED <<account, otps, created>>
    BY <2>2, CommitKeepsCreated
  <2>3. CASE ~(VerifyOtpCommit(r) /\ ~UNCHANGED <<account, otps, created>>)
    <3>1. /\ OthersSame(r) /\ (orderly' => orderly) /\ orderly' \in BOOLEAN
          /\ created' = created /\ issued' = issued
      BY <2>1, <2>3 DEF StepShape
    <3>2. \A id \in 1..MaxOtps : r \in Registering(id)' => r \in Registering(id)
      BY <2>1 DEF StepShape, GoesOn, Registering
    <3>3. \E A, V : RowsFollow(A, V)
      BY <2>1 DEF StepShape
    <3> QED
      BY <3>1, <3>2, <3>3, CreatedRest
  <2> QED
    BY <2>2, <2>3
<1>4. CASE Change
  <2>1. UNCHANGED <<otps, issued, req, created>>
    BY <1>4, ChangeShape
  <2>2. ASSUME NEW id \in 1..MaxOtps
        PROVE  created[id] + Cardinality(Registering(id)) <= Once'
    <3>1. Registering(id) \in SUBSET Requests
      BY DEF Registering
    <3>2. Cardinality(Registering(id)) \in Nat /\ created[id] \in Nat
      BY <3>1, RequestsAssumption, PartCount DEF TypeInv, TypeOK
    <3>3. created[id] + Cardinality(Registering(id)) <= Once
      BY DEF CreatedInv
    <3> QED
      BY <1>4, <3>2, <3>3, OnceChange
  <2> QED
    BY <2>1, <2>2 DEF CreatedInv, Registering
<1> QED
  BY <1>1, <1>2, <1>3, <1>4, CallKeepsCreated, CreateKeepsCreated DEF Next

\* A registration code that was verified has created an account, and only one;
\* of requests that verify it at the same time each creates one at most
\* (verifyOtp's transaction), for any emails, details, requests and number of
\* codes.
THEOREM CodesCreateOnce == Spec => []CodeCreatesOnce
<1>1. Init => CreatedInv
  <2> SUFFICES ASSUME Init, NEW id \in 1..MaxOtps
               PROVE  /\ created[id] = 0
                      /\ created[id] + Cardinality(Registering(id)) <= Once
    BY DEF Init, CreatedInv
  <2>1. created[id] = 0 /\ Once = 1 /\ Registering(id) = {}
    BY DEF Init, Once, Registering
  <2> QED
    BY <2>1, FS_EmptySet
<1>2. TypeInv /\ MatchInv /\ CreatedInv => CodeCreatesOnce
  <2> SUFFICES ASSUME TypeInv, MatchInv, CreatedInv, NEW o \in otps,
                      o.purpose = "REGISTRATION"
               PROVE  (o.isVerified => created[o.id] >= 1) /\ created[o.id] <= Once
    BY DEF CodeCreatesOnce, Once
  <2>1. o.id \in 1..MaxOtps
    BY DEF TypeInv, TypeOK, EmailOtp
  <2>2. Registering(o.id) \in SUBSET Requests
    BY DEF Registering
  <2>3. Cardinality(Registering(o.id)) \in Nat /\ Cardinality(Requests) \in Nat
    BY <2>2, RequestsAssumption, PartCount
  <2>4. created[o.id] \in Nat /\ created[o.id] + Cardinality(Registering(o.id)) <= Once
    BY <2>1 DEF TypeInv, TypeOK, CreatedInv
  <2> QED
    BY <2>3, <2>4 DEF Once, MatchInv
<1> QED
  BY <1>1, <1>2, NextKeepsCreated, Matched, PTL DEF Spec

-----------------------------------------------------------------------------
(* One code to come back with *)

SingleFlight ==
  orderly => \A r, s \in Requests : req[r] # Idle /\ req[s] # Idle => r = s

PendingOf(e, purpose) == {o \in Pending(e) : o.purpose = purpose}

\* What a request for a code that runs alone has done: it has deleted the
\* earlier codes of its purpose.
Undisturbed(r) ==
  LET q == req[r] IN
  q.step = "create" =>
    /\ q.op \in RegistrationOps => PendingOf(q.email, "REGISTRATION") = {}
    /\ q.op = "customerForgotPassword" => PendingOf(q.email, "FORGOT_PASSWORD") = {}

OnePending ==
  \A e \in Emails, purpose \in Purposes : \A o, p \in PendingOf(e, purpose) : o = p

OneCodeInv ==
  /\ SingleFlight
  /\ orderly => OnePending /\ \A r \in Requests : req[r] # Idle => Undisturbed(r)

\* Rows that follow others are as many, of each email and purpose.
LEMMA PendingRest ==
  ASSUME TypeOK, OnePending, NEW A, NEW V, RowsFollow(A, V)
  PROVE  /\ OnePending'
         /\ \A e, purpose : PendingOf(e, purpose) = {} => PendingOf(e, purpose)' = {}
<1>1. ASSUME NEW e, NEW purpose, NEW p \in PendingOf(e, purpose)'
      PROVE  \E o \in PendingOf(e, purpose) : p.id = o.id
  BY DEF RowsFollow, Follows, Pending, PendingOf
<1>2. ASSUME NEW e \in Emails, NEW purpose \in Purposes,
             NEW p \in PendingOf(e, purpose)', NEW q \in PendingOf(e, purpose)'
      PROVE  p = q
  <2>1. p.id = q.id
    BY <1>1 DEF OnePending
  <2> QED
    BY <2>1 DEF RowsFollow, Pending, PendingOf
<1> QED
  BY <1>1, <1>2 DEF OnePending

\* What one request has to see to.
LEMMA OneCodeAfter ==
  ASSUME NEW r \in Requests, OthersSame(r), SingleFlight,
         orderly' => orderly /\ (req[r] # Idle \/ Alone),
         orderly' => OnePending',
         orderly' /\ req'[r] # Idle => Undisturbed(r)'
  PROVE  OneCodeInv'
<1>1. orderly' => \A s \in Requests \ {r} : req'[s] = Idle
  BY DEF SingleFlight, OthersSame, Alone
<1>2. SingleFlight'
  BY <1>1 DEF SingleFlight
<1> QED
  BY <1>1, <1>2 DEF OneCodeInv

LEMMA CallKeepsOneCode ==
  ASSUME TypeInv, OneCodeInv, NEW r \in Requests, NEW e \in Emails, Call(r, e)
  PROVE  OneCodeInv'
<1>1. /\ OthersSame(r) /\ orderly' = (orderly /\ Alone) /\ UNCHANGED otps
      /\ req'[r].step # "create"
  BY CallShape
<1>2. orderly' => orderly /\ Alone
  BY <1>1
<1>3. Undisturbed(r)'
  BY <1>1 DEF Undisturbed
<1>4. OnePending => OnePending'
  BY <1>1 DEF OnePending, Pending, PendingOf
<1> QED
  BY <1>1, <1>2, <1>3, <1>4, OneCodeAfter DEF OneCodeInv

\* The call for a code deletes the codes that came before.
LEMMA InvalidateKeepsOneCode ==
  ASSUME TypeInv, OneCodeInv, NEW r \in Requests,
         InvalidatePreviousOtps(r) \/ InvalidateForgotOtps(r)
  PROVE  OneCodeInv'
<1>1. /\ req[r] # Idle /\ Continue(r, "create") /\ otps' \subseteq otps
      /\ req[r].op \in RegistrationOps => \A o \in otps' : o.email # req[r].email
      /\ req[r].op = "customerForgotPassword" =>
           \A o \in otps' : o.email # req[r].email \/ o.purpose # "FORGOT_PASSWORD"
  BY DEF InvalidatePreviousOtps, InvalidateForgotOtps, At, RegistrationOps
<1>2. /\ OthersSame(r) /\ orderly' = orderly
      /\ req'[r].op = req[r].op /\ req'[r].email = req[r].email
  BY <1>1, ContinueRecord DEF TypeInv
<1>3. orderly' => OnePending'
  BY <1>1, <1>2, RowsOnlyGo, PendingRest DEF OneCodeInv, TypeInv
<1>4. Undisturbed(r)'
  <2>1. req[r].op \in RegistrationOps => PendingOf(req[r].email, "REGISTRATION")' = {}
    BY <1>1, <1>2 DEF Pending, PendingOf
  <2>2. req[r].op = "customerForgotPassword" =>
          PendingOf(req[r].email, "FORGOT_PASSWORD")' = {}
    BY <1>1, <1>2 DEF Pending, PendingOf
  <2> QED
    BY <1>2, <2>1, <2>2 DEF Undisturbed, PendingOf, Pending
<1> QED
  BY <1>1, <1>2, <1>3, <1>4, OneCodeAfter DEF OneCodeInv

LEMMA CreateKeepsOneCode ==
  ASSUME TypeInv, OneCodeInv, NEW r \in Requests, CreateOtp(r)
  PROVE  OneCodeInv'
<1>1. PICK n \in EmailOtp :
        /\ otps' = otps \cup {n} /\ n.email = req[r].email
        /\ n.purpose = IF req[r].op \in RegistrationOps THEN "REGISTRATION"
                       ELSE "FORGOT_PASSWORD"
        /\ req[r] # Idle /\ req[r].step = "create"
        /\ req[r].op \in RegistrationOps \cup {"customerForgotPassword"}
        /\ req'[r] = Idle /\ OthersSame(r) /\ UNCHANGED orderly
  BY CreateRow
<1>2. ASSUME orderly
      PROVE  OnePending'
  <2>1. OnePending /\ Undisturbed(r)
    BY <1>1, <1>2 DEF OneCodeInv
  <2>2. PendingOf(n.email, n.purpose) = {}
    BY <1>1, <2>1 DEF Undisturbed
  <2>3. \A e \in Emails, purpose \in Purposes :
          PendingOf(e, purpose)' \subseteq
            IF e = n.email /\ purpose = n.purpose THEN {n} ELSE PendingOf(e, purpose)
    BY <1>1, <2>2 DEF Pending, PendingOf
  <2> QED
    BY <2>1, <2>3 DEF OnePending
<1> QED
  BY <1>1, <1>2, OneCodeAfter DEF OneCodeInv

\* The statements that neither delete a code nor insert one.
LEMMA RestKeepsOneCode ==
  ASSUME TypeInv, OneCodeInv, NEW r \in Requests, StepShape(r),
         req'[r] # Idle => req'[r].step # "create"
  PROVE  OneCodeInv'
<1>1. req[r] # Idle /\ OthersSame(r) /\ (orderly' => orderly)
  BY DEF StepShape
<1>2. ASSUME orderly'
      PROVE  OnePending'
  <2>1. \E A, V : RowsFollow(A, V)
    BY DEF StepShape
  <2>2. OnePending /\ TypeOK
    BY <1>1, <1>2 DEF OneCodeInv, TypeInv
  <2> QED
    BY <2>1, <2>2, PendingRest
<1>3. req'[r] # Idle => Undisturbed(r)'
  BY DEF Undisturbed
<1> QED
  BY <1>1, <1>2, <1>3, OneCodeAfter DEF OneCodeInv

LEMMA NextKeepsOneCode == TypeInv /\ OneCodeInv /\ [Next]_vars => OneCodeInv'
<1> SUFFICES ASSUME TypeInv, OneCodeInv, [Next]_vars PROVE OneCodeInv'
  OBVIOUS
<1>1. CASE UNCHANGED vars \/ Change
  <2>1. UNCHANGED <<otps, req>> /\ (orderly' => orderly)
    BY <1>1, ChangeShape DEF vars
  <2> QED
    BY <2>1 DEF OneCodeInv, SingleFlight, OnePending, Undisturbed, Pending, PendingOf
<1>2. CASE Tick
  <2>1. RowsFollow({}, {}) /\ UNCHANGED <<req, orderly>>
    BY <1>2, TickRows DEF TypeInv, Tick
  <2>2. SingleFlight'
    BY <2>1 DEF OneCodeInv, SingleFlight
  <2>3. ASSUME orderly
        PROVE  OnePending' /\ \A r \in Requests : req[r] # Idle => Undisturbed(r)'
    <3>1. OnePending /\ TypeOK
      BY <2>3 DEF OneCodeInv, TypeInv
    <3>2. /\ OnePending'
          /\ \A e, purpose : PendingOf(e, purpose) = {} => PendingOf(e, purpose)' = {}
      BY <2>1, <3>1, PendingRest
    <3>3. ASSUME NEW r \in Requests, req[r] # Idle
          PROVE  Undisturbed(r)'
      <4>1. Undisturbed(r)
        BY <2>3, <3>3 DEF OneCodeInv
      <4>2. \A purpose : PendingOf(req[r].email, purpose) = {} =>
              PendingOf(req[r].email, purpose)' = {}
        BY <2>1, <3>2 DEF Pending, PendingOf
      <4> QED
        BY <2>1, <4>1, <4>2 DEF Undisturbed
    <3> QED
      BY <3>2, <3>3
  <2> QED
    BY <2>1, <2>2, <2>3 DEF OneCodeInv
<1>3. ASSUME NEW r \in Requests, Step(r) \/ Fail(r), ~CreateOtp(r)
      PROVE  OneCodeInv'
  <2>1. StepShape(r)
    BY <1>3, StepShapes
  <2>2. CASE req'[r] # Idle /\ req'[r].step = "create"
    <3>1. req[r].step = "invalidate"
      BY <2>1, <2>2 DEF StepShape, GoesOn
    <3>2. InvalidatePreviousOtps(r) \/ InvalidateForgotOtps(r) \/ req'[r] = Idle
      BY <1>3, <3>1, EndRecord DEF Step, ResendOtpReadLast, CustomerForgotPasswordReadLast,
         CountAttempt, VerifyOtpReadUser, VerifyOtpCommit, MarkForgotOtp, GrantResetToken,
         Fail, At, TypeInv
    <3> QED
      BY <2>2, <3>2, InvalidateKeepsOneCode
  <2>3. CASE ~(req'[r] # Idle /\ req'[r].step = "create")
    BY <2>1, <2>3, RestKeepsOneCode
  <2> QED
    BY <2>2, <2>3
<1> QED
  BY <1>1, <1>2, <1>3, CallKeepsOneCode, CreateKeepsOneCode DEF Next

\* While requests come one at a time, an email has no code of a purpose but the
\* one last sent to come back with (customerRegister, resendOtp and
\* customerForgotPassword, and what each of them deletes), whatever accounts
\* move to it.
THEOREM OneCodeLives == Spec => []OneLiveCode
<1>1. Init => OneCodeInv
  BY DEF Init, OneCodeInv, SingleFlight, OnePending, Pending, PendingOf
<1>2. TypeInv /\ OneCodeInv => OneLiveCode
  <2> SUFFICES ASSUME TypeInv, OneCodeInv, orderly, NEW e \in Emails,
                      NEW purpose \in Purposes
               PROVE  Cardinality(PendingOf(e, purpose)) <= 1
    BY DEF OneLiveCode, PendingOf
  <2>1. \A o, p \in PendingOf(e, purpose) : o = p
    BY DEF OneCodeInv, OnePending
  <2>2. Cardinality(PendingOf(e, purpose)) \in 0..1
    BY <2>1, AtMostOne
  <2> QED
    BY <2>2
<1> QED
  BY <1>1, <1>2, NextKeepsOneCode, Typed, PTL DEF Spec
=============================================================================
