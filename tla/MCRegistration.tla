---------------------------- MODULE MCRegistration ----------------------------
(* Small instances of Registration for TLC. *)
EXTENDS Registration, TLC

CONSTANTS e1, e2

Reg(e) == [kind |-> "REGISTER", email |-> e]
In(e)  == [kind |-> "LOGIN", email |-> e]
Resnd  == [kind |-> "RESEND", email |-> None]
Ver    == [kind |-> "VERIFY", email |-> None]

\* Four requests each.  What they may race for: the address, with one
\* registration or two; an entry, with two verifications, two resends, or one of
\* each; and an account that is being made, with its passwords.
MCWorkloads ==
  {<<Reg(e1), Reg(e1), Ver, Ver>>, <<Reg(e1), Reg(e2), Ver, Ver>>,
   <<Reg(e1), Resnd, Ver, Ver>>,   <<Reg(e1), Resnd, Resnd, Ver>>,
   <<Reg(e1), Reg(e1), Resnd, Ver>>,
   <<Reg(e1), Reg(e1), Ver, In(e1)>>, <<Reg(e1), Ver, Ver, In(e1)>>,
   <<Reg(e1), Ver, In(e1), In(e2)>>}

\* A registration, a verification, and another one.
MCClaimWorkloads == {<<Reg(e1), Ver, Reg(e1)>>}

\* A registration, and two resends of what it was given.
MCResendWorkloads == {<<Reg(e1), Resnd, Resnd>>}
=============================================================================
