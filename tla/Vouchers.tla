------------------------------ MODULE Vouchers ------------------------------
(***************************************************************************)
(* What the faucet promises about payments, with no database, no worker    *)
(* and no wallet: a request is granted before it is paid, it is paid at    *)
(* most once, and a challenge backs at most one grant as long as it is     *)
(* valid.  Faucet.tla implements this specification.                       *)
(***************************************************************************)
EXTENDS Integers

CONSTANTS Requests,   \* the requests visitors make
          Nonces,     \* the challenges the faucet may issue
          NoNonce,    \* stands for "this request carries no challenge"
          Ttl         \* how long a challenge is valid

VARIABLES time,       \* the present
          expiry,     \* expiry[n]: the last instant challenge n is valid, or -1
          grant,      \* grant[r]: <<>> or <<n, t>>, granted at t on challenge n
          paid        \* the requests whose coins have left the wallet

vars == <<time, expiry, grant, paid>>

Granted(r) == grant[r] # <<>>

Init ==
  /\ time = 0
  /\ expiry = [n \in Nonces |-> -1]
  /\ grant = [r \in Requests |-> <<>>]
  /\ paid = {}

Issue(n) ==
  /\ expiry[n] = -1
  /\ expiry' = [expiry EXCEPT ![n] = time + Ttl]
  /\ UNCHANGED <<time, grant, paid>>

\* A free request is granted on no challenge.  A challenge is granted on if
\* no earlier grant stands on it, or if it has expired since.
Grant(r, n) ==
  /\ ~Granted(r)
  /\ \/ n = NoNonce
     \/ /\ n \in Nonces
        /\ expiry[n] # -1
        /\ \A q \in Requests : (Granted(q) /\ grant[q][1] = n) => time > expiry[n]
  /\ grant' = [grant EXCEPT ![r] = <<n, time>>]
  /\ UNCHANGED <<time, expiry, paid>>

Pay(r) ==
  /\ Granted(r)
  /\ r \notin paid
  /\ paid' = paid \cup {r}
  /\ UNCHANGED <<time, expiry, grant>>

Pass ==
  /\ time' = time + 1
  /\ UNCHANGED <<expiry, grant, paid>>

Next ==
  \/ \E n \in Nonces : Issue(n)
  \/ \E r \in Requests, n \in Nonces \cup {NoNonce} : Grant(r, n)
  \/ \E r \in Requests : Pay(r)
  \/ Pass

Spec == Init /\ [][Next]_vars
=============================================================================
