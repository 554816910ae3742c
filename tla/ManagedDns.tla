----------------------------- MODULE ManagedDns -----------------------------
(***************************************************************************)
(* What the publishing half of cfddns amounts to, seen from outside, where *)
(* the service answers: no caches, no handles, no requests, no restarts.   *)
(*                                                                         *)
(* An instance of the program goes through its domains in order, over and  *)
(* over again, with the addresses as they were at the beginning of each    *)
(* pass; and every domain whose turn it is has, from then on, exactly one  *)
(* record, with that address, until the next pass says otherwise.          *)
(***************************************************************************)
EXTENDS Naturals, Sequences

CONSTANTS Instances, Keys, Addresses, Config, IPs, NoIP, Moves

VARIABLES
  current,    \* what resolving each address yields now
  published,  \* the addresses in the records of each key
  aim,        \* what each instance is about to publish in its pass
  turn        \* the domain whose turn it is, 0 outside a pass

vars == <<current, published, aim, turn>>

Nothing == [a \in Addresses |-> NoIP]

Init ==
  /\ current = Nothing
  /\ published \in [Keys -> {{}} \cup {{ip} : ip \in IPs}]
  /\ aim = [i \in Instances |-> Nothing]
  /\ turn = [i \in Instances |-> 0]

Begin(i) ==
  /\ turn[i] = 0
  /\ aim' = [aim EXCEPT ![i] = current]
  /\ turn' = [turn EXCEPT ![i] = 1]
  /\ UNCHANGED <<current, published>>

(* A domain whose address has no value keeps the record it has, if any. *)
Settle(i) ==
  /\ turn[i] \in DOMAIN Config[i]
  /\ LET d  == Config[i][turn[i]]
         ip == aim[i][d.address]
     IN  published' = IF ip = NoIP THEN published ELSE [published EXCEPT ![d.key] = {ip}]
  /\ turn' = [turn EXCEPT ![i] = @ + 1]
  /\ UNCHANGED <<current, aim>>

(* The pass ends, behind the last domain or because the process dies. *)
End(i) ==
  /\ turn[i] # 0
  /\ aim' = [aim EXCEPT ![i] = Nothing]
  /\ turn' = [turn EXCEPT ![i] = 0]
  /\ UNCHANGED <<current, published>>

AddressChanges(a) ==
  /\ \E ip \in IPs \cup {NoIP} :
       /\ <<current[a], ip>> \in Moves
       /\ current' = [current EXCEPT ![a] = ip]
  /\ UNCHANGED <<published, aim, turn>>

Next ==
  \/ \E i \in Instances : Begin(i) \/ Settle(i) \/ End(i)
  \/ \E a \in Addresses : AddressChanges(a)

Spec == Init /\ [][Next]_vars
=============================================================================
