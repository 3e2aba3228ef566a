-------------------------- MODULE RegistrationClaims --------------------------
(***************************************************************************)
(* What the documents say of registration and the code does not do.        *)
(***************************************************************************)
EXTENDS MCRegistration

\* SYSTEM_DESIGN.md: each user has exactly one wallet, created upon
\* verification.
EveryUserGetsAWallet ==
  \A e \in Emails : users[e] # None ~> e \in wallets

\* SYSTEM_DESIGN.md, "OTP Invalidation": a resend makes the previous code of the
\* registration invalid, so that verifyEmail accepts one code at most.
PreviousCodesAreInvalid ==
  \A t, u \in Requests :
    Valid(t, t) /\ Valid(u, u) /\ otp[t].registration = otp[u].registration => t = u
=============================================================================
