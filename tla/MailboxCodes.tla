----------------------------- MODULE MailboxCodes -----------------------------
(***************************************************************************)
(* The verification codes of registrations (register/mail_provider.py,     *)
(* register/openai_register.py).  A login mailbox and its aliases have one *)
(* inbox, an address is used again by later registrations, mail is late or *)
(* lost, and a registration asks for a code more than once: for the        *)
(* signup, for a passwordless signup, and for a login.                     *)
(***************************************************************************)
EXTENDS Naturals, FiniteSets

CONSTANTS
  Attempts,    \* registrations
  Addresses,   \* the addresses of one inbox
  MaxAsks      \* bound: codes that one registration asks for

ASSUME CodesAssumption == MaxAsks \in Nat \ {0}

VARIABLES
  attempt,   \* registration -> where it is, its address, boundary, seen codes
  transit,   \* codes under way
  inbox,     \* code -> when it was received
  late       \* history: registration -> codes under way when it last asked

codeVars == <<attempt, transit, inbox, late>>

NoCode == [by |-> "nobody", n |-> 0]
NoAttempt == [at |-> "idle", to |-> "none", asks |-> 0, after |-> 0, seen |-> {}, code |-> NoCode]
Received == DOMAIN inbox
Clock == Cardinality(Received)

CodesTypeOK ==
  /\ \A a \in Attempts :
       /\ attempt[a].at \in {"idle", "waiting", "validating", "ended"}
       /\ attempt[a].asks \in 0..MaxAsks /\ attempt[a].after \in Nat
       /\ attempt[a].seen \subseteq Received
  /\ transit \cap Received = {}

CodesInit ==
  /\ attempt = [a \in Attempts |-> NoAttempt]
  /\ transit = {}
  /\ inbox = [c \in {} |-> 0]
  /\ late = [a \in Attempts |-> {}]

-----------------------------------------------------------------------------

\* create_mailbox: the address is claimed and _code_not_before is set; a login
\* and its aliases are claimed independently.
ClaimAddress(a) ==
  /\ attempt[a] = NoAttempt
  /\ \E b \in Addresses :
       /\ \A o \in Attempts : attempt[o].at \in {"waiting", "validating"} => attempt[o].to # b
       /\ attempt' = [attempt EXCEPT ![a] =
            [NoAttempt EXCEPT !.at = "waiting", !.to = b, !.after = Clock]]
  /\ UNCHANGED <<transit, inbox, late>>

\* Mutant: the boundary is the claim of the address.
KeepsBoundary(a) == attempt[a].after

\* _received_after is set before each request for a code.
Boundary(a) == Clock

\* _platform_authorize, _start_passwordless_signup, _send_passwordless_otp and
\* _send_otp have the upstream send a code.
AskForCode(a) ==
  /\ attempt[a].at = "waiting" /\ attempt[a].asks < MaxAsks
  /\ LET n == attempt[a].asks + 1
         code == [by |-> a, n |-> n, to |-> attempt[a].to] IN
     /\ attempt' = [attempt EXCEPT ![a].asks = n, ![a].after = Boundary(a)]
     /\ late' = [late EXCEPT ![a] = {c \in transit : c.to = attempt[a].to}]
     /\ transit' = transit \cup {code}
  /\ UNCHANGED inbox

\* A code reaches the inbox; one that never does is lost.
CodeArrives ==
  /\ \E c \in transit :
       /\ transit' = transit \ {c}
       /\ inbox' = [d \in Received \cup {c} |-> IF d = c THEN Clock ELSE inbox[d]]
  /\ UNCHANGED <<attempt, late>>

\* What wait_for_code considers: addressed to the registration, not received
\* before its boundary, not used by it before.
Eligible(a) ==
  {c \in Received :
     c.to = attempt[a].to /\ c \notin attempt[a].seen /\ inbox[c] >= attempt[a].after}

\* Every provider takes the newest message with a code first.
Newest(a) == {c \in Eligible(a) : \A d \in Eligible(a) : inbox[d] <= inbox[c]}

ReceiveVerificationCode(a) ==
  /\ attempt[a].at = "waiting" /\ attempt[a].asks > 0
  /\ \E c \in Newest(a) :
       attempt' = [attempt EXCEPT ![a].at = "validating", ![a].code = c, ![a].seen = @ \cup {c}]
  /\ UNCHANGED <<transit, inbox, late>>

\* validate_otp: accepted or refused; for a stale login session the same code is
\* validated once more.
ValidateCode(a) ==
  /\ attempt[a].at = "validating"
  /\ attempt' = [attempt EXCEPT ![a] = [NoAttempt EXCEPT !.at = "ended"]]
  /\ UNCHANGED <<transit, inbox, late>>

\* _mailbox_wait_timeout_error
WaitTimesOut(a) ==
  /\ attempt[a].at = "waiting"
  /\ attempt' = [attempt EXCEPT ![a] = [NoAttempt EXCEPT !.at = "ended"]]
  /\ UNCHANGED <<transit, inbox, late>>

CodesNext ==
  \/ \E a \in Attempts :
       \/ ClaimAddress(a) \/ AskForCode(a) \/ ReceiveVerificationCode(a)
       \/ ValidateCode(a) \/ WaitTimesOut(a)
  \/ CodeArrives

CodesSpec == CodesInit /\ [][CodesNext]_codeVars

-----------------------------------------------------------------------------
(* Properties *)

\* A registration validates the last code it asked for, or one that was still
\* under way to its address when it asked: never a code of another alias, one
\* that an earlier request or registration left in the inbox, or one it used
\* before (wait_for_code, _mailbox_code_boundary, _message_matches_email).
CodesAreOwn ==
  \A a \in Attempts :
    attempt[a].at = "validating" =>
      attempt[a].code \in late[a] \cup {[by |-> a, n |-> attempt[a].asks, to |-> attempt[a].to]}
=============================================================================
