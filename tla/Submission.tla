----------------------------- MODULE Submission -----------------------------
(***************************************************************************)
(* Transactions that come over RPC (ethapi/api.go, ethapi/addrlock.go),    *)
(* with the pool they are sent to (module TxPool): SendTransaction of both *)
(* APIs, which takes the account's next nonce from the pool under the lock *)
(* of the account; SendRawTransaction and Resend, which come with a nonce  *)
(* and take no lock.  Each caller of the pool is a request.                *)
(***************************************************************************)
EXTENDS TxPool

CONSTANTS
    Request,    \* caller -> [kind, from, nonce, price]: "send", without a nonce, or "nonce"
    NewPrice    \* the price of SendRawTransaction, and of what Resend sends

VARIABLES
    nonceLock,  \* AddrLocker: account -> who holds its mutex, or 0
    call        \* caller -> [at, tx]

subvars == <<nonceLock, call>>

None == 0
TxOf(c, n, p) == [from |-> Request[c].from, nonce |-> n, price |-> p, cost |-> 1]
Sends(c) == Request[c].kind = "send"

Goes(c, at) == call' = [call EXCEPT ![c].at = at]
Unlocked(c) == [nonceLock EXCEPT ![Request[c].from] = IF @ = c THEN None ELSE @]

-----------------------------------------------------------------------------
\* Mutant: nobody waits for the mutex.
LockAddrFree(c) ==
    /\ call[c].at = "start" /\ Sends(c)
    /\ nonceLock' = [nonceLock EXCEPT ![Request[c].from] = c]
    /\ Goes(c, "locked")
    /\ UNCHANGED vars

LockAddr(c) ==
    /\ call[c].at = "start" /\ Sends(c)
    /\ nonceLock[Request[c].from] = None
    /\ nonceLock' = [nonceLock EXCEPT ![Request[c].from] = c]
    /\ Goes(c, "locked")
    /\ UNCHANGED vars

\* setDefaults asks the pool for the nonce; gas and price are in the request.
SetDefaults(c) ==
    /\ call[c].at = "locked"
    /\ call' = [call EXCEPT ![c] = [at |-> "filled",
                                    tx |-> TxOf(c, pool.nonces[Request[c].from], Request[c].price)]]
    /\ UNCHANGED <<vars, nonceLock>>

\* setDefaults cannot estimate the gas, or the wallet does not sign: the deferred unlock.
Fail(c) ==
    /\ call[c].at = "filled" /\ Sends(c)
    /\ nonceLock' = Unlocked(c)
    /\ Goes(c, "done")
    /\ UNCHANGED vars

\* SendRawTransaction decodes a signed transaction.
DecodeRaw(c) ==
    /\ call[c].at = "start" /\ ~Sends(c)
    /\ call' = [call EXCEPT ![c] = [at |-> "filled", tx |-> TxOf(c, Request[c].nonce, NewPrice)]]
    /\ UNCHANGED <<vars, nonceLock>>

\* Resend looks for the transaction among the pending ones, and signs it with a new price.
Resend(c) ==
    /\ call[c].at = "start" /\ ~Sends(c)
    /\ LET match == TxOf(c, Request[c].nonce, Request[c].price)
       IN  call' = [call EXCEPT ![c] =
                       IF match \in pool.pending[match.from]
                       THEN [at |-> "filled", tx |-> TxOf(c, match.nonce, NewPrice)]
                       ELSE [@ EXCEPT !.at = "done"]]
    /\ UNCHANGED <<vars, nonceLock>>

\* SubmitTransaction, SendTx: AddLocal, which waits for the promotion.
SubmitTransaction(c) ==
    /\ call[c].at = "filled"
    /\ AddTxs(c, <<call[c].tx>>, TRUE)
    /\ Goes(c, "submitted")
    /\ UNCHANGED nonceLock

Return(c) ==
    /\ call[c].at = "submitted" /\ caller[c].pc = "idle"
    /\ nonceLock' = Unlocked(c)
    /\ Goes(c, "done")
    /\ UNCHANGED vars

SubInit ==
    /\ nonceLock = [a \in Account |-> None]
    /\ call = [c \in Caller |-> [at |-> "start", tx |-> [from |-> None]]]

Calls(c) ==
    \/ LockAddr(c) \/ SetDefaults(c) \/ Fail(c) \/ DecodeRaw(c) \/ Resend(c)
    \/ SubmitTransaction(c) \/ Return(c)

-----------------------------------------------------------------------------
(***************************************************************************)
(* "prevent concurrent assignment of the same nonce": the transaction of a *)
(* SendTransaction without a nonce never takes the place of a pending one  *)
(* of another, whatever else changes the account's nonces: blocks,         *)
(* requests with a nonce, and the promotion in the background, which the   *)
(* lock is held for.  (What a reset has left in the queue, because it      *)
(* promotes before it counts the pending nonces, can lose its place.)      *)
(***************************************************************************)
NonceOnce ==
    [][\A c, d \in {x \in Caller : Sends(x)} :
          /\ c # d /\ call[d].at = "filled" /\ call'[d].at = "submitted"
          /\ call[c].tx \in UNION {pool.pending[a] : a \in Account}
          => call[c].tx \in pool'.all]_<<vars, subvars>>
=============================================================================
