-------------------------- MODULE Registration_proofs --------------------------
(***************************************************************************)
(* For every number of requests and addresses: an account comes from a     *)
(* registration whose own code was returned, it is never replaced, and     *)
(* whoever signs in to an address owns it and, by a code, has a wallet.    *)
(* The argument: an entry in Redis is what the request that stored it      *)
(* holds, so a code proves the registration it was mailed for, and that    *)
(* stays true, since nobody holds another entry later; and only an INSERT  *)
(* that finds the address free makes a user.                               *)
(***************************************************************************)
EXTENDS Registration, TLAPS

\* The code that r was sent with came by mail, for the registration r holds.
Proven(r) ==
  /\ pc[r] # "start"
  /\ held[r] \in Entry
  /\ code[r] \in mailed
  /\ pc[code[r]] = "done"
  /\ held[code[r]] = held[r]

\* How far the requests are, and what they hold there.
StageInv ==
  \A r \in Requests :
    /\ pc[r] \in {"expire", "consume", "find", "create", "wallet"} => Kind(r) = "VERIFY"
    /\ pc[r] \in {"store", "remove", "send", "deliver"} => Kind(r) \in {"REGISTER", "RESEND"}
    /\ pc[r] \in {"store", "remove", "consume", "find", "create", "wallet"} => held[r] \in Entry
    /\ pc[r] \in {"expire", "consume", "remove"} => token[r] \in Requests
    /\ otp[r] # None => otp[r] = held[r] /\ pc[r] # "start"

\* What keeps AccountsAreProven.
ProofInv ==
  /\ \A r \in Requests :
       Kind(r) = "VERIFY" /\ pc[r] \in {"consume", "find", "create", "wallet", "done"} => Proven(r)
  /\ \A e \in Emails : users[e] # None =>
       \E r \in Requests :
         Kind(r) = "VERIFY" /\ Proven(r) /\ held[r] = [email |-> e, registration |-> users[e]]

\* What keeps SessionsHaveWallets and OneOwnerPerAddress.
OwnerInv ==
  \A r \in Requests :
    /\ pc[r] = "wallet" => users[held[r].email] = held[r].registration
    /\ Kind(r) = "VERIFY" /\ pc[r] = "done" =>
         users[held[r].email] = held[r].registration /\ held[r].email \in wallets
    /\ Kind(r) = "LOGIN" /\ pc[r] = "done" =>
         code[r] \in Requests /\ users[job[r].email] = code[r]

IInv == TypeOK /\ StageInv /\ ProofInv /\ OwnerInv

LEMMA Jobs ==
  ASSUME TypeOK, NEW r \in Requests
  PROVE  /\ job[r] \in Job
         /\ Kind(r) \in {"REGISTER", "LOGIN", "VERIFY", "RESEND"}
         /\ Kind(r) \in {"REGISTER", "LOGIN"} => job[r].email \in Emails
  BY RegistrationAssumption DEF TypeOK, Job, Kind

LEMMA Entries ==
  ASSUME NEW h \in Entry
  PROVE  /\ h.email \in Emails /\ h.registration \in Requests
         /\ h = [email |-> h.email, registration |-> h.registration]
         /\ h # None /\ h.registration # None
  BY RegistrationAssumption DEF Entry

LEMMA InitInv == Init => IInv
  BY RegistrationAssumption
  DEF Init, IInv, TypeOK, Active, StageInv, ProofInv, OwnerInv

LEMMA NeverReplaced ==
  ASSUME IInv, [Next]_vars
  PROVE  /\ job' = job
         /\ wallets \subseteq wallets'
         /\ mailed \subseteq mailed'
         /\ \A e \in Emails : users[e] # None => users'[e] = users[e]
<1> USE DEF IInv, TypeOK
<1>1. ASSUME NEW r \in Requests, CreateUser(r)
      PROVE  \A e \in Emails : users[e] # None => users'[e] = users[e]
  BY <1>1 DEF CreateUser
<1>2. job' = job /\ wallets \subseteq wallets' /\ mailed \subseteq mailed'
  BY DEF Next, vars, requests, Progress, Terminating, Register, RegisterExisting, Store, Render,
         Deliver, RenderFails, Verify, DeleteExpired, Consume, FindUser, CreateUser, DuplicateUser,
         CreateWallet, Resend, Remove, Login, Expire, Evict, Fault, Crash
<1>3. CASE users' = users
  BY <1>2, <1>3
<1> QED
  BY <1>1, <1>2, <1>3
  DEF Next, vars, requests, Progress, Terminating, Register, RegisterExisting, Store, Render,
      Deliver, RenderFails, Verify, DeleteExpired, Consume, FindUser, DuplicateUser,
      CreateWallet, Resend, Remove, Login, Expire, Evict, Fault, Crash

LEMMA TypeStep ==
  ASSUME IInv, [Next]_vars
  PROVE  TypeOK'
<1> USE RegistrationAssumption DEF IInv, TypeOK, Active, Ended, Goto
<1>1. ASSUME NEW r \in Requests, Register(r) PROVE TypeOK'
  <2>1. [email |-> job[r].email, registration |-> r] \in Entry
    BY <1>1, Jobs DEF Register, Entry
  <2> QED BY <1>1, <2>1 DEF Register
<1>2. ASSUME NEW r \in Requests, RegisterExisting(r) \/ Render(r) \/ RenderFails(r) \/ Deliver(r)
      PROVE  TypeOK'
  BY <1>2 DEF RegisterExisting, Render, RenderFails, Deliver
<1>3. ASSUME NEW r \in Requests, Store(r) PROVE TypeOK'
  BY <1>3 DEF Store
<1>4. ASSUME NEW r \in Requests, Verify(r) PROVE TypeOK'
  BY <1>4 DEF Verify, Issued
<1>5. ASSUME NEW r \in Requests, DeleteExpired(r) \/ Consume(r) \/ Remove(r) PROVE TypeOK'
  BY <1>5 DEF DeleteExpired, Consume, Remove
<1>6. ASSUME NEW r \in Requests, FindUser(r) \/ DuplicateUser(r) \/ Fault(r) PROVE TypeOK'
  BY <1>6 DEF FindUser, DuplicateUser, Fault
<1>7. ASSUME NEW r \in Requests, CreateUser(r) PROVE TypeOK'
  <2>1. held[r].email \in Emails /\ held[r].registration \in Requests
    BY <1>7, Entries DEF CreateUser, StageInv
  <2>2. users' \in [Emails -> Requests \cup {None}]
    BY <1>7, <2>1 DEF CreateUser
  <2>3. wallets' \subseteq {e \in Emails : users'[e] # None}
    BY <1>7, NeverReplaced DEF CreateUser
  <2> QED BY <1>7, <2>2, <2>3 DEF CreateUser
<1>8. ASSUME NEW r \in Requests, CreateWallet(r) PROVE TypeOK'
  <2>1. held[r] \in Entry /\ users[held[r].email] = held[r].registration
    BY <1>8 DEF CreateWallet, StageInv, OwnerInv
  <2> QED BY <1>8, <2>1, Entries DEF CreateWallet
<1>9. ASSUME NEW r \in Requests, Resend(r) PROVE TypeOK'
  BY <1>9 DEF Resend, Issued
<1>10. ASSUME NEW r \in Requests, Login(r) PROVE TypeOK'
  BY <1>10 DEF Login
<1>11. ASSUME NEW r \in Requests, Expire(r) \/ Evict(r) PROVE TypeOK'
  BY <1>11 DEF Expire, Evict, requests
<1>12. CASE Crash
  BY <1>12 DEF Crash
<1>13. CASE UNCHANGED vars
  BY <1>13 DEF vars, requests
<1> QED
  BY <1>1, <1>2, <1>3, <1>4, <1>5, <1>6, <1>7, <1>8, <1>9, <1>10, <1>11, <1>12, <1>13
  DEF Next, Progress, Terminating

LEMMA StageStep ==
  ASSUME IInv, [Next]_vars
  PROVE  StageInv'
<1> USE RegistrationAssumption DEF IInv, TypeOK, Active, Ended, Goto, StageInv, Kind
<1>1. ASSUME NEW r \in Requests, Register(r) PROVE StageInv'
  <2>1. [email |-> job[r].email, registration |-> r] \in Entry
    BY <1>1, Jobs DEF Register, Entry
  <2> QED BY <1>1, <2>1 DEF Register
<1>2. ASSUME NEW r \in Requests, RegisterExisting(r) \/ Render(r) \/ RenderFails(r) \/ Deliver(r)
      PROVE  StageInv'
  BY <1>2 DEF RegisterExisting, Render, RenderFails, Deliver
<1>3. ASSUME NEW r \in Requests, Store(r) PROVE StageInv'
  BY <1>3 DEF Store
<1>4. ASSUME NEW r \in Requests, Verify(r) PROVE StageInv'
  <2>1. otp[r] = None
    BY <1>4 DEF Verify
  <2>2. token'[r] \in Requests /\ (pc'[r] = "consume" => held'[r] \in Entry)
    BY <1>4 DEF Verify, Issued, Valid
  <2> QED BY <1>4, <2>1, <2>2 DEF Verify
<1>5. ASSUME NEW r \in Requests, DeleteExpired(r) \/ Consume(r) \/ Remove(r) PROVE StageInv'
  BY <1>5 DEF DeleteExpired, Consume, Remove
<1>6. ASSUME NEW r \in Requests, FindUser(r) \/ DuplicateUser(r) \/ Fault(r) PROVE StageInv'
  BY <1>6 DEF FindUser, DuplicateUser, Fault
<1>7. ASSUME NEW r \in Requests, CreateUser(r) \/ CreateWallet(r) PROVE StageInv'
  BY <1>7 DEF CreateUser, CreateWallet
<1>8. ASSUME NEW r \in Requests, Resend(r) PROVE StageInv'
  <2>1. otp[r] = None
    BY <1>8 DEF Resend
  <2>2. token'[r] \in Requests /\ (pc'[r] = "remove" => held'[r] \in Entry)
    BY <1>8 DEF Resend, Issued
  <2> QED BY <1>8, <2>1, <2>2 DEF Resend
<1>9. ASSUME NEW r \in Requests, Login(r) PROVE StageInv'
  BY <1>9 DEF Login
<1>10. ASSUME NEW r \in Requests, Expire(r) \/ Evict(r) PROVE StageInv'
  BY <1>10 DEF Expire, Evict, requests
<1>11. CASE Crash
  BY <1>11 DEF Crash
<1>12. CASE UNCHANGED vars
  BY <1>12 DEF vars, requests
<1> QED
  BY <1>1, <1>2, <1>3, <1>4, <1>5, <1>6, <1>7, <1>8, <1>9, <1>10, <1>11, <1>12
  DEF Next, Progress, Terminating

\* A request moves by a step of its own, or is crashed.
LEMMA Moves ==
  ASSUME IInv, [Next]_vars, NEW r \in Requests
  PROVE  \/ Progress(r) \/ RenderFails(r) \/ Fault(r)
         \/ UNCHANGED <<pc[r], held[r], code[r]>>
         \/ pc[r] # "done" /\ pc'[r] = "crashed" /\ UNCHANGED <<held[r], code[r]>>
<1> USE DEF IInv, TypeOK, Goto, Active
<1>1. ASSUME NEW q \in Requests, q # r, Register(q) \/ RegisterExisting(q) \/ Store(q) \/ Render(q)
      PROVE  UNCHANGED <<pc[r], held[r], code[r]>>
  BY <1>1 DEF Register, RegisterExisting, Store, Render
<1>2. ASSUME NEW q \in Requests, q # r, Deliver(q) \/ RenderFails(q) \/ Fault(q) \/ Consume(q)
      PROVE  UNCHANGED <<pc[r], held[r], code[r]>>
  BY <1>2 DEF Deliver, RenderFails, Fault, Consume
<1>3. ASSUME NEW q \in Requests, q # r, Verify(q) PROVE UNCHANGED <<pc[r], held[r], code[r]>>
  BY <1>3 DEF Verify
<1>4. ASSUME NEW q \in Requests, q # r, DeleteExpired(q) \/ FindUser(q) \/ CreateUser(q)
      PROVE  UNCHANGED <<pc[r], held[r], code[r]>>
  BY <1>4 DEF DeleteExpired, FindUser, CreateUser
<1>5. ASSUME NEW q \in Requests, q # r, DuplicateUser(q) \/ CreateWallet(q) \/ Remove(q)
      PROVE  UNCHANGED <<pc[r], held[r], code[r]>>
  BY <1>5 DEF DuplicateUser, CreateWallet, Remove
<1>6. ASSUME NEW q \in Requests, q # r, Resend(q) \/ Login(q) PROVE UNCHANGED <<pc[r], held[r], code[r]>>
  BY <1>6 DEF Resend, Login
<1>7. ASSUME NEW q \in Requests, Expire(q) \/ Evict(q) PROVE UNCHANGED <<pc[r], held[r], code[r]>>
  BY <1>7 DEF Expire, Evict, requests
<1>8. CASE Crash
  BY <1>8 DEF Crash
<1>9. CASE UNCHANGED vars
  BY <1>9 DEF vars, requests
<1> QED
  BY <1>1, <1>2, <1>3, <1>4, <1>5, <1>6, <1>7, <1>8, <1>9 DEF Next, Progress, Terminating

\* A request that has begun to verify keeps its code and its entry, and the
\* request that mailed the code has ended and keeps its own.
LEMMA StaysProven ==
  ASSUME IInv, [Next]_vars, NEW r \in Requests, Kind(r) = "VERIFY", Proven(r)
  PROVE  Proven(r)' /\ held'[r] = held[r]
<1> USE RegistrationAssumption DEF IInv, TypeOK, Active, Ended, Goto, StageInv, Kind, Proven
<1>1. code[r] \in Requests
  OBVIOUS
<1>2. ASSUME NEW q \in Requests, pc[q] # "start"
      PROVE  held'[q] = held[q] /\ code'[q] = code[q] /\ pc'[q] # "start"
             /\ (pc[q] = "done" => pc'[q] = "done")
  <2>1. CASE Progress(q) \/ RenderFails(q) \/ Fault(q)
    BY <1>2, <2>1 DEF Progress, Register, RegisterExisting, Store, Render, Deliver, RenderFails, Verify,
       DeleteExpired, Consume, FindUser, CreateUser, DuplicateUser, CreateWallet, Resend, Remove, Login, Fault
  <2> QED BY <1>2, <2>1, Moves
<1> QED BY <1>1, <1>2, NeverReplaced

LEMMA ProofStep ==
  ASSUME IInv, [Next]_vars
  PROVE  ProofInv'
<1> USE DEF IInv
<1>1. \A r \in Requests : Kind(r)' = Kind(r)
  BY NeverReplaced DEF Kind
<1>2. ASSUME NEW r \in Requests, Kind(r) = "VERIFY",
             pc'[r] \in {"consume", "find", "create", "wallet", "done"}
      PROVE  Proven(r)'
  <2>1. CASE pc[r] \in {"consume", "find", "create", "wallet", "done"}
    BY <1>2, <2>1, StaysProven DEF ProofInv
  <2>2. CASE pc[r] \notin {"consume", "find", "create", "wallet", "done"}
    <3>1. Verify(r)
      BY <1>2, <2>2, Moves
      DEF IInv, TypeOK, Active, Goto, StageInv, Progress, Register, RegisterExisting, Store, Render, Deliver,
          RenderFails, Verify, DeleteExpired, Consume, FindUser, CreateUser, DuplicateUser, CreateWallet,
          Resend, Remove, Login, Fault
    <3>2. PICK t \in Issued : token'[r] = t /\ code'[r] = t /\ otp[t] # None /\ held'[r] = otp[t]
                              /\ t \in mailed
      BY <1>2, <3>1, RegistrationAssumption DEF Verify, Valid, TypeOK, Issued, Goto
    <3>3. t \in Requests /\ t # r /\ pc[t] = "done" /\ otp[t] = held[t] /\ otp[t] \in Entry
      BY <3>1, <3>2 DEF Issued, StageInv, Verify, TypeOK
    <3>4. pc'[t] = "done" /\ held'[t] = held[t] /\ mailed' = mailed
      BY <3>1, <3>3 DEF Verify, TypeOK, Goto
    <3> QED BY <1>2, <3>2, <3>3, <3>4 DEF Proven
  <2> QED BY <2>1, <2>2
<1>3. ASSUME NEW e \in Emails, users'[e] # None
      PROVE  \E r \in Requests :
               Kind(r) = "VERIFY" /\ Proven(r)' /\ held'[r] = [email |-> e, registration |-> users'[e]]
  <2>1. CASE users[e] # None
    <3>1. PICK r \in Requests :
            Kind(r) = "VERIFY" /\ Proven(r) /\ held[r] = [email |-> e, registration |-> users[e]]
      BY <2>1 DEF ProofInv
    <3> QED BY <2>1, <3>1, StaysProven, NeverReplaced
  <2>2. CASE users[e] = None
    <3>1. PICK r \in Requests : CreateUser(r)
      BY <1>3, <2>2
      DEF Next, vars, requests, Progress, Terminating, Register,
          RegisterExisting, Store, Render, Deliver, RenderFails, Verify, DeleteExpired, Consume, FindUser,
          DuplicateUser, CreateWallet, Resend, Remove, Login, Expire, Evict, Fault, Crash
    <3>2. Kind(r) = "VERIFY" /\ Proven(r) /\ held[r] \in Entry
      BY <3>1 DEF CreateUser, StageInv, ProofInv
    <3>3. held[r].email = e /\ users'[e] = held[r].registration
      BY <1>3, <2>2, <3>1 DEF CreateUser, TypeOK
    <3>4. held[r] = [email |-> e, registration |-> users'[e]]
      BY <3>2, <3>3, Entries
    <3> QED BY <3>2, <3>4, StaysProven
  <2> QED BY <2>1, <2>2
<1> QED BY <1>1, <1>2, <1>3 DEF ProofInv

LEMMA OwnerStep ==
  ASSUME IInv, [Next]_vars
  PROVE  OwnerInv'
<1> USE DEF IInv
<1>1. \A r \in Requests : Kind(r)' = Kind(r)
  BY NeverReplaced DEF Kind
<1>2. ASSUME NEW r \in Requests, pc'[r] = "wallet"
      PROVE  users'[held'[r].email] = held'[r].registration
  <2>1. CASE pc[r] = "wallet"
    <3>1. Kind(r) = "VERIFY" /\ Proven(r) /\ held[r] \in Entry
      BY <2>1 DEF StageInv, ProofInv
    <3> QED BY <2>1, <3>1, StaysProven, Entries, NeverReplaced DEF OwnerInv
  <2>2. CASE pc[r] # "wallet"
    <3>1. CreateUser(r)
      BY <1>2, <2>2, Moves
      DEF IInv, TypeOK, Active, Goto, StageInv, Progress, Register, RegisterExisting, Store, Render, Deliver,
          RenderFails, Verify, DeleteExpired, Consume, FindUser, CreateUser, DuplicateUser, CreateWallet,
          Resend, Remove, Login, Fault
    <3>2. held[r].email \in Emails
      BY <3>1, Entries DEF CreateUser, StageInv
    <3> QED BY <3>1, <3>2 DEF CreateUser, TypeOK
  <2> QED BY <2>1, <2>2
<1>3. ASSUME NEW r \in Requests, Kind(r) = "VERIFY", pc'[r] = "done"
      PROVE  users'[held'[r].email] = held'[r].registration /\ held'[r].email \in wallets'
  <2>1. CASE pc[r] = "done"
    <3>1. Proven(r) /\ held[r] \in Entry
      BY <1>3, <2>1 DEF ProofInv, Proven
    <3> QED BY <1>3, <2>1, <3>1, StaysProven, Entries, NeverReplaced DEF OwnerInv
  <2>2. CASE pc[r] # "done"
    <3>1. CreateWallet(r)
      BY <1>3, <2>2, Moves
      DEF IInv, TypeOK, Active, Goto, StageInv, Progress, Register, RegisterExisting, Store, Render, Deliver,
          RenderFails, Verify, DeleteExpired, Consume, FindUser, CreateUser, DuplicateUser, CreateWallet,
          Resend, Remove, Login, Fault
    <3> QED BY <3>1 DEF CreateWallet, OwnerInv
  <2> QED BY <2>1, <2>2
<1>4. ASSUME NEW r \in Requests, Kind(r) = "LOGIN", pc'[r] = "done"
      PROVE  code'[r] \in Requests /\ users'[job'[r].email] = code'[r]
  <2>1. CASE pc[r] = "done"
    <3>1. code'[r] = code[r]
      BY <2>1, Moves
      DEF Progress, Register, RegisterExisting, Store, Render, Deliver, RenderFails, Verify, DeleteExpired,
          Consume, FindUser, CreateUser, DuplicateUser, CreateWallet, Resend, Remove, Login, Fault, Active
    <3>2. code[r] \in Requests /\ users[job[r].email] = code[r] /\ job[r].email \in Emails
      BY <1>4, <2>1, Jobs DEF OwnerInv
    <3> QED BY <3>1, <3>2, NeverReplaced, RegistrationAssumption
  <2>2. CASE pc[r] # "done"
    <3>1. Login(r)
      BY <1>4, <2>2, Moves
      DEF IInv, TypeOK, Active, Goto, StageInv, Progress, Register, RegisterExisting, Store, Render, Deliver,
          RenderFails, Verify, DeleteExpired, Consume, FindUser, CreateUser, DuplicateUser, CreateWallet,
          Resend, Remove, Login, Fault
    <3> QED BY <1>4, <3>1, RegistrationAssumption DEF Login, TypeOK, Goto
  <2> QED BY <2>1, <2>2
<1> QED BY <1>1, <1>2, <1>3, <1>4 DEF OwnerInv

LEMMA Inductive == IInv /\ [Next]_vars => IInv'
  BY TypeStep, StageStep, ProofStep, OwnerStep DEF IInv

LEMMA Invariance == Spec => []IInv
  BY InitInv, Inductive, PTL DEF Spec

-----------------------------------------------------------------------------
\* Every variable keeps its type, and only an address with a user has a wallet.
THEOREM AccountsTyped == Spec => []TypeOK
<1>1. IInv => TypeOK
  BY DEF IInv
<1> QED BY <1>1, Invariance, PTL

\* Every account was made from a registration whose own code came back from
\* the mailbox.
THEOREM ProvenAccounts == Spec => []AccountsAreProven
<1>1. IInv => AccountsAreProven
  BY DEF IInv, ProofInv, Proven, AccountsAreProven
<1> QED BY <1>1, Invariance, PTL

\* Whoever is signed in by a verification has their account and a wallet.
THEOREM WalletsOfSessions == Spec => []SessionsHaveWallets
<1>1. IInv => SessionsHaveWallets
  BY DEF IInv, OwnerInv, SessionsHaveWallets
<1> QED BY <1>1, Invariance, PTL

\* An address has one owner, whatever was registered and verified, and by
\* whichever way somebody signs in.
THEOREM OneOwner == Spec => []OneOwnerPerAddress
<1>1. ASSUME IInv, NEW r \in Requests, SignedIn(r)
      PROVE  /\ Session(r).email \in Emails
             /\ Session(r) = [email |-> Session(r).email, registration |-> users[Session(r).email]]
  <2>1. CASE Kind(r) = "LOGIN"
    BY <1>1, <2>1, Jobs DEF IInv, OwnerInv, SignedIn, Session
  <2>2. CASE Kind(r) = "VERIFY"
    <3>1. held[r] \in Entry
      BY <1>1, <2>2 DEF IInv, ProofInv, Proven, SignedIn
    <3> QED BY <1>1, <2>2, <3>1, Entries DEF IInv, OwnerInv, SignedIn, Session
  <2> QED BY <1>1, <2>1, <2>2 DEF SignedIn
<1>2. IInv => OneOwnerPerAddress
  BY <1>1 DEF OneOwnerPerAddress
<1> QED BY <1>2, Invariance, PTL

\* The registration an account was made from is never replaced.
THEOREM AccountsStay == Spec => AccountsAreNeverReplaced
<1>1. IInv /\ [Next]_vars =>
        [\A e \in Emails : users[e] # None => users'[e] = users[e]]_vars
  BY NeverReplaced
<1> QED BY <1>1, Invariance, PTL DEF Spec, AccountsAreNeverReplaced
=============================================================================
