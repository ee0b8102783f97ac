------------------------------ MODULE SSHNames ------------------------------
(***************************************************************************)
(* The tables of scanners/ssh.py, which the SSH and the configuration      *)
(* scanner share: what the name of an SSH algorithm stands for.            *)
(***************************************************************************)
EXTENDS Sequences, Functions, Findings

CONSTANT Table    \* KEX, HOST_KEYS, CIPHERS, MACS: [name -> sequence of halves]

(* A name stands for one algorithm, or is a hybrid of two.                 *)
ASSUME TableAssumption ==
  \A n \in DOMAIN Table :
    /\ Table[n] \in Seq(Range(Table[n])) /\ Len(Table[n]) \in {1, 2}
    /\ Len(Table[n]) = 2 => Table[n][1] # Table[n][2]

(* Not the code: a half is known by its algorithm only.                    *)
BareHalves(name) ==
  IF name \notin DOMAIN Table THEN <<>>
  ELSE [i \in DOMAIN Table[name] |-> [algorithm |-> Table[name][i], partner |-> None]]

(* _declare_hybrid(): a half names the other, where there are two.         *)
Halves(name) ==
  IF name \notin DOMAIN Table THEN <<>>
  ELSE [i \in DOMAIN Table[name] |->
          [algorithm |-> Table[name][i],
           partner |-> IF Len(Table[name]) < 2 THEN None
                       ELSE CHOOSE a \in Range(Table[name]) : a # Table[name][i]]]

HalvesOf(name) == Range(Halves(name))
=============================================================================
