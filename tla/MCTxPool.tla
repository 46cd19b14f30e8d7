------------------------------ MODULE MCTxPool ------------------------------
(***************************************************************************)
(* Small instances of TxPool and, in the last scenario, of Submission, one *)
(* of which is picked at the start:                                        *)
(*   remote   remote transactions of two accounts fill the pool, a block   *)
(*            changes the state, queues are evicted;                       *)
(*   local    an account becomes local, the node restarts;                 *)
(*   stop     two callers wait when the pool is stopped;                   *)
(*   submit   two requests without a nonce and one with come over RPC,     *)
(*            while a block executes a transaction of the account.         *)
(***************************************************************************)
EXTENDS Submission

VARIABLE scenario

\* A transaction of account a with nonce n, price p and cost c.
T(a, n, p, c) == [from |-> a, nonce |-> n, price |-> p, cost |-> c]

Cheap == T(1, 0, 1, 1)
Dear == T(1, 0, 2, 1)
Second == T(1, 1, 2, 2)
Third == T(1, 2, 2, 1)
Other == T(2, 0, 1, 1)
Next2 == T(2, 1, 3, 1)

\* Below MinGasPrice.
Free == T(2, 1, 0, 1)

Tries == {T(1, n, p, 1) : n \in 0..2, p \in 1..3}

MCTx == {Cheap, Dear, Second, Third, Other, Next2, Free} \cup Tries

MCRequest ==
    [c \in Caller |->
        [kind |-> <<"send", "send", "nonce">>[c], from |-> 1, nonce |-> 0,
         price |-> <<1, 2, 1>>[c]]]

MCBatch == {<<Cheap, Second>>, <<Third, Dear>>, <<Other, Free, Next2>>, <<Next2>>}

MCBalance == <<2, 1>>

Added(c, local) == \E txs \in Batch : AddTxs(c, txs, local)

\* The blocks execute transactions of account 1, or move its balance.
Block == \E n \in {0, 1}, i \in DOMAIN Balance : NewBlock(1, chain.nonce[1] + n, Balance[i])

Evicted == \E k \in 0..Len(pool.beats) : Evict(k)

MCNext ==
    /\ \/ scenario = "remote" /\ (Added(1, FALSE) \/ Block \/ Evicted)
       \/ scenario = "local" /\ restarts = 0 /\ adds < 3 /\ (Added(1, FALSE) \/ Added(1, TRUE))
       \/ scenario = "local" /\ restarts = 0 /\ (Block \/ Rejournal \/ Restart)
       \/ scenario = "stop" /\ adds < 3 /\ \E c \in {1, 2} : AddTxs(c, <<Other>>, TRUE) \/ AddTxs(c, <<Next2>>, TRUE)
       \/ scenario = "stop" /\ (Stop \/ ReorgLoopExit)
       \/ scenario = "submit" /\ Block
       \/ \E c \in Caller : RequestPromoteExecutables(c)
       \/ RequestReset \/ Launch \/ RunReorg \/ ReorgDone
    /\ UNCHANGED <<scenario, subvars>>

MCSubmit ==
    /\ scenario = "submit"
    /\ \E c \in Caller : Calls(c)
    /\ UNCHANGED scenario

MCInit == Init /\ SubInit /\ scenario \in {"remote", "local", "stop", "submit"}

MCSpec == MCInit /\ [][MCNext \/ MCSubmit]_<<vars, subvars, scenario>>
=============================================================================
