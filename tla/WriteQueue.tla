----------------------------- MODULE WriteQueue -----------------------------
(***************************************************************************)
(* What the HIL promises about the order of writes: commands of a core are *)
(* served in the order they came, writes of a bank too, every one exactly  *)
(* once, and no write is served while a command waits.                     *)
(***************************************************************************)
EXTENDS Sequences, Naturals

CONSTANTS LPN, Core, Bank, CoreOf(_), InCore(_), BankOf(_), IsCommand(_)

VARIABLES
    commands,   \* in-core lpns: by core, the commands not yet served
    writes      \* by core and bank, the writes not yet served

vars == <<commands, writes>>

Init ==
    /\ commands = [core \in Core |-> <<>>]
    /\ writes = [core \in Core |-> [bank \in Bank |-> <<>>]]

Put(lpn) ==
    IF IsCommand(lpn)
    THEN /\ commands' = [commands EXCEPT ![CoreOf(lpn)] = Append(@, InCore(lpn))]
         /\ UNCHANGED writes
    ELSE /\ writes' = [writes EXCEPT ![CoreOf(lpn)][BankOf(lpn)] = Append(@, InCore(lpn))]
         /\ UNCHANGED commands

ServeCommand(core) ==
    /\ commands[core] # <<>>
    /\ commands' = [commands EXCEPT ![core] = Tail(@)]
    /\ UNCHANGED writes

\* The two halves of a buffer are served together.
ServeWrites(core, bank) ==
    /\ \A c \in Core : commands[c] = <<>>
    /\ \E n \in {1, 2} :
        /\ n <= Len(writes[core][bank])
        /\ writes' = [writes EXCEPT ![core][bank] = SubSeq(@, n + 1, Len(@))]
    /\ UNCHANGED commands

Next ==
    \/ \E lpn \in LPN : Put(lpn)
    \/ \E core \in Core : ServeCommand(core) \/ \E bank \in Bank : ServeWrites(core, bank)

Spec == Init /\ [][Next]_vars
=============================================================================
