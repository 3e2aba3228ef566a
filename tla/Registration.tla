----------------------------- MODULE Registration -----------------------------
(***************************************************************************)
(* AuthService.register, verifyEmail, resendOtp and login, over the OTP    *)
(* entries in Redis, the users and the wallets, with the way of a mail     *)
(* through ResendNotificationAdapter.  No two statements of a request are  *)
(* atomic: there is no database transaction, and an entry is read, checked *)
(* and deleted in separate steps.                                          *)
(*                                                                         *)
(* A registration, and the password in it, is named by its register        *)
(* request; a verification token and the code that goes with it are named  *)
(* by the request that issued them.  Validation, hashing, encryption and   *)
(* JWTs are left out, and so is isEmailVerified, which every user has.     *)
(***************************************************************************)
EXTENDS FiniteSets

CONSTANTS
  Requests,
  Emails,
  Workloads, \* what the requests may be: their kinds and addresses
  None

Job == [kind: {"REGISTER", "LOGIN"}, email: Emails] \cup
       [kind: {"VERIFY", "RESEND"}, email: {None}]

\* What a verification token stands for: the OTP entry in Redis.
Entry == [email: Emails, registration: Requests]

ASSUME RegistrationAssumption ==
  /\ Workloads \subseteq [Requests -> Job]
  /\ None \notin Emails \cup Requests \cup Entry

VARIABLES
  job,        \* [Requests -> Job], never changed
  pc,
  otp,        \* Redis: the entry of each token
  late,       \* the tokens past expiresAt
  mailed,     \* the tokens whose code reached the mailbox
  token,      \* the token a verification or a resend was sent with
  code,       \* the code a verification, or the password a login, was sent with
  held,       \* the entry a request retrieved, or is about to store
  users,      \* users: the registration that made the user of each address
  wallets     \* wallets: the addresses whose user has one

requests == <<job, pc, token, code, held>>
vars     == <<requests, otp, late, mailed, users, wallets>>

Active == {"start", "store", "send", "deliver", "expire", "consume", "find", "create", "wallet", "remove"}
Ended  == {"done", "invalid", "exists", "error", "crashed"}

Init ==
  /\ job \in Workloads
  /\ pc = [r \in Requests |-> "start"]
  /\ otp = [t \in Requests |-> None]
  /\ late = {}
  /\ mailed = {}
  /\ token = [r \in Requests |-> None]
  /\ code = [r \in Requests |-> None]
  /\ held = [r \in Requests |-> None]
  /\ users = [e \in Emails |-> None]
  /\ wallets = {}

Kind(r) == job[r].kind
Goto(r, stage) == pc' = [pc EXCEPT ![r] = stage]

\* The tokens that clients were given.
Issued == {t \in Requests : Kind(t) \in {"REGISTER", "RESEND"} /\ pc[t] = "done"}

-----------------------------------------------------------------------------
(* register *)

\* findByEmail, and the code of the new registration.
Register(r) ==
  /\ pc[r] = "start"
  /\ Kind(r) = "REGISTER"
  /\ users[job[r].email] = None
  /\ held' = [held EXCEPT ![r] = [email |-> job[r].email, registration |-> r]]
  /\ Goto(r, "store")
  /\ UNCHANGED <<job, token, code, otp, late, mailed, users, wallets>>

RegisterExisting(r) ==
  /\ pc[r] = "start"
  /\ Kind(r) = "REGISTER"
  /\ users[job[r].email] # None
  /\ Goto(r, "exists")
  /\ UNCHANGED <<job, token, code, held, otp, late, mailed, users, wallets>>

\* otpCache.store under a fresh token, of register and of resendOtp.
Store(r) ==
  /\ pc[r] = "store"
  /\ otp' = [otp EXCEPT ![r] = held[r]]
  /\ Goto(r, "send")
  /\ UNCHANGED <<job, token, code, held, late, mailed, users, wallets>>

\* Mutant: the mailer passes emailType on, and send calls the mailer again.
RenderAndPassOnType(r) == pc[r] = "send" /\ UNCHANGED vars

\* send with an emailType leaves the mail to its mailer, which renders the
\* template and calls send once more, with a body and without a type.
Render(r) ==
  /\ pc[r] = "send"
  /\ Goto(r, "deliver")
  /\ UNCHANGED <<job, token, code, held, otp, late, mailed, users, wallets>>

\* EmailTemplateNotFoundError, EmailTemplateRenderError: the entry stays.
RenderFails(r) ==
  /\ pc[r] = "send"
  /\ Goto(r, "error")
  /\ UNCHANGED <<job, token, code, held, otp, late, mailed, users, wallets>>

\* The mail may be lost: the provider's client reports an error as a value
\* that nobody reads.
Deliver(r) ==
  /\ pc[r] = "deliver"
  /\ mailed' \in {mailed, mailed \cup {r}}
  /\ Goto(r, "done")
  /\ UNCHANGED <<job, token, code, held, otp, late, users, wallets>>

-----------------------------------------------------------------------------
(* verifyEmail *)

\* Mutant: the code is not compared.
ValidForAnyCode(t, c) == otp[t] # None /\ t \notin late

Valid(t, c) == otp[t] # None /\ t \notin late /\ c = t

\* retrieve, and the checks of the entry, with a code from some mail or none.
Verify(r) ==
  /\ pc[r] = "start"
  /\ Kind(r) = "VERIFY"
  /\ \E t \in Issued, c \in mailed \cup {None} :
       /\ token' = [token EXCEPT ![r] = t]
       /\ code' = [code EXCEPT ![r] = c]
       /\ IF Valid(t, c)
          THEN held' = [held EXCEPT ![r] = otp[t]] /\ Goto(r, "consume")
          ELSE /\ Goto(r, IF otp[t] # None /\ t \in late THEN "expire" ELSE "invalid")
               /\ UNCHANGED held
  /\ UNCHANGED <<job, otp, late, mailed, users, wallets>>

\* The delete of an expired entry.
DeleteExpired(r) ==
  /\ pc[r] = "expire"
  /\ otp' = [otp EXCEPT ![token[r]] = None]
  /\ Goto(r, "invalid")
  /\ UNCHANGED <<job, token, code, held, late, mailed, users, wallets>>

Consume(r) ==
  /\ pc[r] = "consume"
  /\ otp' = [otp EXCEPT ![token[r]] = None]
  /\ Goto(r, "find")
  /\ UNCHANGED <<job, token, code, held, late, mailed, users, wallets>>

\* Mutant: the wallet is created before the user.
FindUserWalletFirst(r) ==
  /\ pc[r] = "find"
  /\ Goto(r, IF users[held[r].email] = None THEN "create" ELSE "exists")
  /\ wallets' = IF users[held[r].email] = None THEN wallets \cup {held[r].email} ELSE wallets
  /\ UNCHANGED <<job, token, code, held, otp, late, mailed, users>>

\* Mutant: a verification of an address that has an account signs in to it.
FindUserOrSignIn(r) ==
  /\ pc[r] = "find"
  /\ Goto(r, IF users[held[r].email] = None THEN "create" ELSE "done")
  /\ UNCHANGED <<job, token, code, held, otp, late, mailed, users, wallets>>

\* UserAlreadyExistsError, or on to the INSERT.
FindUser(r) ==
  /\ pc[r] = "find"
  /\ Goto(r, IF users[held[r].email] = None THEN "create" ELSE "exists")
  /\ UNCHANGED <<job, token, code, held, otp, late, mailed, users, wallets>>

\* Mutant: save() overwrites the user it finds.
CreateOrReplaceUser(r) ==
  /\ pc[r] = "create"
  /\ users' = [users EXCEPT ![held[r].email] = held[r].registration]
  /\ Goto(r, "wallet")
  /\ UNCHANGED <<job, token, code, held, otp, late, mailed, wallets>>

\* Mutant: the wallet is left to be created later.
CreateUserOnly(r) ==
  /\ pc[r] = "create"
  /\ users[held[r].email] = None
  /\ users' = [users EXCEPT ![held[r].email] = held[r].registration]
  /\ Goto(r, "done")
  /\ UNCHANGED <<job, token, code, held, otp, late, mailed, wallets>>

CreateUser(r) ==
  /\ pc[r] = "create"
  /\ users[held[r].email] = None
  /\ users' = [users EXCEPT ![held[r].email] = held[r].registration]
  /\ Goto(r, "wallet")
  /\ UNCHANGED <<job, token, code, held, otp, late, mailed, wallets>>

\* The unique index on users.email.
DuplicateUser(r) ==
  /\ pc[r] = "create"
  /\ users[held[r].email] # None
  /\ Goto(r, "error")
  /\ UNCHANGED <<job, token, code, held, otp, late, mailed, users, wallets>>

\* createWallet, and the tokens that follow.
CreateWallet(r) ==
  /\ pc[r] = "wallet"
  /\ wallets' = wallets \cup {held[r].email}
  /\ Goto(r, "done")
  /\ UNCHANGED <<job, token, code, held, otp, late, mailed, users>>

-----------------------------------------------------------------------------
(* resendOtp *)

\* retrieve: the entry, although it may be past expiresAt.
Resend(r) ==
  /\ pc[r] = "start"
  /\ Kind(r) = "RESEND"
  /\ \E t \in Issued :
       /\ token' = [token EXCEPT ![r] = t]
       /\ IF otp[t] # None
          THEN held' = [held EXCEPT ![r] = otp[t]] /\ Goto(r, "remove")
          ELSE UNCHANGED held /\ Goto(r, "invalid")
  /\ UNCHANGED <<job, code, otp, late, mailed, users, wallets>>

Remove(r) ==
  /\ pc[r] = "remove"
  /\ otp' = [otp EXCEPT ![token[r]] = None]
  /\ Goto(r, "store")
  /\ UNCHANGED <<job, token, code, held, late, mailed, users, wallets>>

-----------------------------------------------------------------------------
(* login *)

\* findByEmail and comparePassword, with the password of some registration of
\* the address or with none of these.
Login(r) ==
  /\ pc[r] = "start"
  /\ Kind(r) = "LOGIN"
  /\ \E p \in {q \in Requests : job[q] = [kind |-> "REGISTER", email |-> job[r].email]} \cup {None} :
       /\ code' = [code EXCEPT ![r] = p]
       /\ Goto(r, IF p # None /\ users[job[r].email] = p THEN "done" ELSE "invalid")
  /\ UNCHANGED <<job, token, held, otp, late, mailed, users, wallets>>

-----------------------------------------------------------------------------
(* Time and failures *)

\* expiresAt passes.
Expire(t) ==
  /\ otp[t] # None
  /\ t \notin late
  /\ late' = late \cup {t}
  /\ UNCHANGED <<requests, otp, mailed, users, wallets>>

\* Redis drops an entry; its TTL starts after expiresAt was computed.
Evict(t) ==
  /\ t \in late
  /\ otp[t] # None
  /\ otp' = [otp EXCEPT ![t] = None]
  /\ UNCHANGED <<requests, late, mailed, users, wallets>>

\* A statement of Redis or PostgreSQL fails, or the mail client throws.
Fault(r) ==
  /\ pc[r] \in Active \ {"send"}
  /\ Goto(r, "error")
  /\ UNCHANGED <<job, token, code, held, otp, late, mailed, users, wallets>>

\* The process dies; Redis and PostgreSQL keep what they have.
Crash ==
  /\ \E r \in Requests : pc[r] \in Active \ {"start"}
  /\ pc' = [r \in Requests |-> IF pc[r] \in Active \ {"start"} THEN "crashed" ELSE pc[r]]
  /\ UNCHANGED <<job, token, code, held, otp, late, mailed, users, wallets>>

-----------------------------------------------------------------------------
Progress(r) ==
  \/ Register(r) \/ RegisterExisting(r) \/ Store(r) \/ Render(r) \/ Deliver(r)
  \/ Verify(r) \/ DeleteExpired(r) \/ Consume(r)
  \/ FindUser(r) \/ CreateUser(r) \/ DuplicateUser(r) \/ CreateWallet(r)
  \/ Resend(r) \/ Remove(r) \/ Login(r)

\* Nobody has a request left that a token of theirs allows.
Terminating ==
  /\ \A r \in Requests : pc[r] \in Ended \cup {"start"}
  /\ UNCHANGED vars

Next ==
  \/ \E r \in Requests : Progress(r) \/ RenderFails(r) \/ Fault(r) \/ Expire(r) \/ Evict(r)
  \/ Crash
  \/ Terminating

Spec == Init /\ [][Next]_vars

\* Node runs every continuation of a handler that has begun; its statements are
\* answered as long as the pool has a connection left (WalletLedger: PoolLost).
FairSpec == Spec /\ \A r \in Requests : WF_vars(Progress(r))

-----------------------------------------------------------------------------
TypeOK ==
  /\ job \in Workloads
  /\ pc \in [Requests -> Active \cup Ended]
  /\ otp \in [Requests -> Entry \cup {None}]
  /\ late \subseteq Requests
  /\ mailed \subseteq Requests
  /\ token \in [Requests -> Requests \cup {None}]
  /\ code \in [Requests -> Requests \cup {None}]
  /\ held \in [Requests -> Entry \cup {None}]
  /\ users \in [Emails -> Requests \cup {None}]
  /\ wallets \subseteq {e \in Emails : users[e] # None}

\* The user of an address was made from a registration of that address, after
\* somebody returned a code that was mailed for that very registration: no
\* mixture of registrations, resends and verifications gives an account the
\* password of a registration whose code its mailbox never received.
AccountsAreProven ==
  \A e \in Emails : users[e] # None =>
    \E r \in Requests :
      /\ Kind(r) = "VERIFY"
      /\ held[r] = [email |-> e, registration |-> users[e]]
      /\ code[r] \in mailed
      /\ held[code[r]] = held[r]

\* The registration an account was made from is never replaced by a later one,
\* although two verifications may both find the address free.
AccountsAreNeverReplaced ==
  [][\A e \in Emails : users[e] # None => users'[e] = users[e]]_vars

\* Whoever is signed in by a verification has an account, made from their own
\* registration, and a wallet.
SessionsHaveWallets ==
  \A r \in Requests : Kind(r) = "VERIFY" /\ pc[r] = "done" =>
    /\ users[held[r].email] = held[r].registration
    /\ held[r].email \in wallets

\* The addresses that requests are signed in to, with the password of each.
SignedIn(r) == pc[r] = "done" /\ Kind(r) \in {"VERIFY", "LOGIN"}

Session(r) ==
  IF Kind(r) = "LOGIN" THEN [email |-> job[r].email, registration |-> code[r]] ELSE held[r]

\* Whoever signs in to an address, by a code or by a password, and however many
\* registrations of it there were, belongs to one registration.
OneOwnerPerAddress ==
  \A r, q \in Requests :
    SignedIn(r) /\ SignedIn(q) /\ Session(r).email = Session(q).email => Session(r) = Session(q)

\* Every handler that begins ends; the mailer does not call itself for ever.
EveryHandlerEnds ==
  \A r \in Requests : pc[r] \in Active \ {"start"} ~> pc[r] \in Ended
=============================================================================
