---- MODULE Email ----
(***************************************************************************)
(* Email addresses of callers: asking for one, the code that proves it,    *)
(* the setting, and forgetting it.                                         *)
(*                                                                         *)
(* Sources: internal/store/email.go, schema.go (email_verifications),      *)
(* internal/bbs/email.go (emailSettings and what it calls).                *)
(*                                                                         *)
(* An account may be online on several lines, so its operations come in    *)
(* any order; each is one statement or one transaction of the store.       *)
(* Codes are numbered in the order they are made and are all different;    *)
(* nobody guesses one.  The limits on how many go out are RateLimiter's.   *)
(***************************************************************************)
EXTENDS Integers, Sequences, FiniteSets

CONSTANTS
  Users,     \* ids, given out again after a delete
  Addrs,     \* addresses, without regard to case
  MaxTries,  \* maxEmailCodeTries
  MaxCodes,  \* bound: codes made
  MaxLives   \* bound: owners of an id, one after the other

NoAddr == "none"
Modes  == 0 .. 2   \* EmailOff, EmailNotice, EmailCopy
Notice == 1

VARIABLES
  life,     \* the accounts there are: which of its id's owners it is, 0 for none
  lives,    \* history: owners of an id so far
  email,    \* users.email
  mode,     \* users.email_mode
  pending,  \* email_verifications: at most one row of an account
  codes,    \* history: of each code, for whom and where it was mailed, and tries at it
  proof     \* history: the code that proved an account's address

vars == <<life, lives, email, mode, pending, codes, proof>>

NoRow == [addr |-> NoAddr, code |-> 0, expired |-> FALSE, attempts |-> 0]

Init ==
  /\ life = [u \in Users |-> 0] /\ lives = [u \in Users |-> 0]
  /\ email = [u \in Users |-> NoAddr] /\ mode = [u \in Users |-> 0]
  /\ pending = [u \in Users |-> NoRow] /\ codes = <<>> /\ proof = [u \in Users |-> 0]

Exists(u)  == life[u] # 0
Waiting(u) == pending[u] # NoRow

-----------------------------------------------------------------------------
(* Accounts.                                                               *)

CreateUser(u) ==
  /\ ~Exists(u)
  /\ lives' = [lives EXCEPT ![u] = @ + 1] /\ life' = [life EXCEPT ![u] = lives[u] + 1]
  /\ UNCHANGED <<email, mode, pending, codes, proof>>

\* Mutant: the row of email_verifications stays.
CascadeNot(u) == pending

\* ON DELETE CASCADE.
Cascade(u) == [pending EXCEPT ![u] = NoRow]

DeleteUser(u) ==
  /\ Exists(u) /\ lives[u] < MaxLives
  /\ life' = [life EXCEPT ![u] = 0]
  /\ email' = [email EXCEPT ![u] = NoAddr] /\ mode' = [mode EXCEPT ![u] = 0]
  /\ pending' = Cascade(u)
  /\ proof' = [proof EXCEPT ![u] = 0]
  /\ UNCHANGED <<lives, codes>>

-----------------------------------------------------------------------------
(* Settings.                                                               *)

\* StartEmailVerification, and then sendEmail, which may find the mail system busy:
\* the row is there all the same, with a code nobody has seen.
SetEmailAddress(u, addr, mailed) ==
  /\ Exists(u) /\ Len(codes) < MaxCodes
  /\ pending' = [pending EXCEPT ![u] = [addr |-> addr, code |-> Len(codes) + 1,
                                         expired |-> FALSE, attempts |-> 0]]
  /\ codes' = Append(codes, [user |-> u, life |-> life[u], addr |-> addr, mailed |-> mailed, tries |-> 0])
  /\ UNCHANGED <<life, lives, email, mode, proof>>

\* EmailCodeTTL passes.
Expires(u) ==
  /\ Waiting(u) /\ ~pending[u].expired
  /\ pending' = [pending EXCEPT ![u].expired = TRUE]
  /\ UNCHANGED <<life, lives, email, mode, codes, proof>>

Taken(u, addr) == \E v \in Users \ {u} : Exists(v) /\ email[v] = addr

\* A wrong code is counted, and the transaction commits.
WrongTry(u) == [pending EXCEPT ![u].attempts = @ + 1]

\* ConfirmEmail, one transaction, with code n of those anybody has read, or 0 for a
\* wrong one. The verify key is offered while PendingEmail finds a row, but the prompt
\* may be older than that.
ConfirmEmail(u, n) ==
  LET row  == pending[u]
      gone == [pending EXCEPT ![u] = NoRow]
  IN /\ Exists(u) /\ Waiting(u)
     /\ IF row.expired \/ row.attempts >= MaxTries
        THEN pending' = gone /\ UNCHANGED <<email, mode, codes, proof>>
        ELSE IF n # row.code
        THEN /\ pending' = WrongTry(u)
             /\ codes' = [codes EXCEPT ![row.code].tries = @ + 1]
             /\ UNCHANGED <<email, mode, proof>>
        ELSE IF Taken(u, row.addr)
        THEN pending' = gone /\ UNCHANGED <<email, mode, codes, proof>>
        ELSE /\ email' = [email EXCEPT ![u] = row.addr]
             /\ mode' = [mode EXCEPT ![u] = IF @ < Notice THEN Notice ELSE @]
             /\ pending' = gone /\ proof' = [proof EXCEPT ![u] = n]
             /\ UNCHANGED codes
     /\ UNCHANGED <<life, lives>>

\* SetEmailMode: only with an address.
ChooseEmailMode(u, m) ==
  /\ Exists(u) /\ email[u] # NoAddr
  /\ mode' = [mode EXCEPT ![u] = m]
  /\ UNCHANGED <<life, lives, email, pending, codes, proof>>

RemoveEmail(u) ==
  /\ Exists(u)
  /\ email' = [email EXCEPT ![u] = NoAddr] /\ mode' = [mode EXCEPT ![u] = 0]
  /\ pending' = [pending EXCEPT ![u] = NoRow] /\ proof' = [proof EXCEPT ![u] = 0]
  /\ UNCHANGED <<life, lives, codes>>

Known == {0} \union {n \in DOMAIN codes : codes[n].mailed}

Next ==
  \E u \in Users :
    \/ CreateUser(u) \/ DeleteUser(u) \/ Expires(u) \/ RemoveEmail(u)
    \/ \E addr \in Addrs, mailed \in BOOLEAN : SetEmailAddress(u, addr, mailed)
    \/ \E n \in Known : ConfirmEmail(u, n)
    \/ \E m \in Modes : ChooseEmailMode(u, m)

Spec == Init /\ [][Next]_vars

-----------------------------------------------------------------------------
(* Properties.                                                             *)

\* Nobody gets more than maxEmailCodeTries wrong tries at a code, from however many
\* lines at once: a wrong try is counted although it is reported as an error
\* ("reported after the transaction commits the attempt count").
TriesBounded == \A n \in DOMAIN codes : codes[n].tries <= MaxTries

\* An address an account has was proved (StartEmailVerification, ConfirmEmail, the
\* cascade): by a code mailed to that address because this very owner of the account
\* asked, whatever other codes they or earlier owners of the id asked for, and by
\* somebody who had no more than the tries there are. No address has two accounts,
\* and mail is only on with an address.
EmailProved ==
  /\ TriesBounded
  /\ \A u \in Users :
       /\ email[u] # NoAddr =>
            LET c == codes[proof[u]]
            IN /\ c.mailed /\ c.addr = email[u] /\ c.user = u /\ c.life = life[u]
               /\ ~Taken(u, email[u])
       /\ email[u] = NoAddr => mode[u] = 0
====
