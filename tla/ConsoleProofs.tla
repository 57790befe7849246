---------------------------- MODULE ConsoleProofs ----------------------------
(***************************************************************************)
(* console.c over lser.c is sound for any processes, whatever they print   *)
(* and read, and however much polled output meets them.  ConsoleSound is   *)
(* not inductive.  The invariant adds which part of its code a process is  *)
(* in (PlacesKept), that it has the lock there (LocksKept), where the      *)
(* character is that the port is sending and what polled output leaves     *)
(* behind (PortKept), who has the permit of cs_wsem (PermitKept), that a   *)
(* call that others have followed under its lock is over (TurnsKept), and  *)
(* where the character is that was typed last (InputKept).                 *)
(*                                                                         *)
(* Most leaves are first-order and are Zenon's; the others name SMT.       *)
(***************************************************************************)
EXTENDS Console, TLAPS

(* The types, the flags aside.                                             *)
PortTypes ==
    /\ cs_wsem \in Nat /\ cs_rsem \in Nat /\ cs_gotchar \in 0..MaxTyped
    /\ polled \in {"no", "drain", "send", "wait"} /\ npolled \in 0..MaxPolled
    /\ tx \in {"idle", "busy"} /\ rx \in 0..MaxTyped /\ typed \in 0..MaxTyped
ProcTypes ==
    /\ owner \in [Lock -> Writer \cup Reader \cup {NULL}]
    /\ con_pc \in [Writer \cup Reader -> {"lock", "loop", "putch", "send", "getch", "take", "done"}]
    /\ pos \in [Writer \cup Reader -> Nat]
    /\ pend \in [Writer -> Seq({"c", "\n", "\r"})]
Printed == [by : Writer \cup {NULL}, ch : {"c", "\n", "\r"}]
GotChar == [by : Reader, ch : 0..MaxTyped]
LogTypes == out \in Seq(Printed) /\ in \in Seq(GotChar)
ConsoleTypes == PortTypes /\ ProcTypes /\ LogTypes

(* Which part of its code a process is in.                                 *)
PlacesKept ==
    /\ \A w \in Writer : con_pc[w] \in {"lock", "loop", "putch", "send", "done"}
    /\ \A r \in Reader : con_pc[r] \in {"lock", "getch", "take", "done"}
    /\ \A r \in KernelReader : con_pc[r] # "lock"
    /\ \A w \in Writer : con_pc[w] \in {"putch", "send"} => Len(pend[w]) > 0

(* Who is between lock_acquire and lock_release.                           *)
Holds(p) == \/ con_pc[p] \in {"loop", "putch", "send"}
            \/ p \in UserReader /\ con_pc[p] \in {"getch", "take"}
LocksKept == \A p \in Writer \cup Reader : Holds(p) => owner[LockOf(p)] = p

(* A write in progress is in the port or waits as its ready condition;     *)
(* polled output finds the port clear and leaves the condition as it was.  *)
PortKept ==
    /\ fault = "none"
    /\ tx = "busy" => ~ wactive
    /\ polled = "no" => (ls_wbusy <=> tx = "busy" \/ wactive)
    /\ polled # "no" => (irqpending <=> ls_wbusy)
    /\ polled = "drain" => ls_wbusy /\ (tx = "busy" \/ wactive)
    /\ polled = "send" => tx = "idle" /\ ~ wactive
    /\ polled = "wait" => tx = "busy" \/ wactive

(* Who has the one permit of cs_wsem: a writer about to send, or the port. *)
PermitKept ==
    /\ \A v, w \in Writer : con_pc[v] = "send" /\ con_pc[w] = "send" => v = w
    /\ \A w \in Writer : con_pc[w] = "send" => cs_wsem = 0 /\ ~ ls_wbusy
    /\ ls_wbusy => cs_wsem = 0
    /\ ~ ls_wbusy /\ (\A w \in Writer : con_pc[w] # "send") => cs_wsem = 1

(* Who has printed or read has passed its lock, and if another has after   *)
(* it under the same lock, it has returned.                                *)
Locking == Writer \cup UserReader
Turns(s, at) ==
    /\ \A a \in DOMAIN s : s[a].by \in Locking => at[s[a].by] # "lock"
    /\ \A a, b \in DOMAIN s :
          /\ a < b /\ s[a].by # s[b].by /\ s[a].by \in Locking /\ s[b].by \in Locking
          /\ LockOf(s[a].by) = LockOf(s[b].by)
          => at[s[a].by] = "done"
TurnsKept == Turns(out, con_pc) /\ Turns(in, con_pc) /\ IOIsAtomic

(* Where the one character is that has been typed and not been read.       *)
InputKept ==
    /\ \A a \in DOMAIN in : in[a].ch = a
    /\ Len(in) <= typed /\ typed <= Len(in) + 1
    /\ \A q, r \in Reader : con_pc[q] = "take" /\ con_pc[r] = "take" => q = r
    /\ \A r \in Reader : con_pc[r] = "take" =>
          typed = Len(in) + 1 /\ cs_gotchar = typed /\ cs_rsem = 0 /\ ~ ractive
    /\ cs_rsem # 0 => typed = Len(in) + 1 /\ cs_gotchar = typed /\ cs_rsem = 1 /\ ~ ractive
    /\ ractive => typed = Len(in) + 1 /\ rx = typed

ConsoleInv ==
    /\ ConsoleTypes /\ PlacesKept /\ LocksKept /\ PortKept /\ PermitKept /\ TurnsKept
    /\ Paced => InputKept

(* After con_init nothing is under way.                                    *)
LEMMA ConsoleInvInit == ConsoleInit => ConsoleInv
<1> SUFFICES ASSUME ConsoleInit PROVE ConsoleInv
  OBVIOUS
<1> USE ConsoleConstants
<1>1. ConsoleTypes
  BY DEF ConsoleInit, ConsoleTypes, PortTypes, ProcTypes, LogTypes, Lock
<1>2. PlacesKept
  BY DEF ConsoleInit, PlacesKept, Writer, Reader
<1>3. LocksKept
  BY DEF ConsoleInit, LocksKept, Holds, Writer, Reader
<1>4. PortKept /\ PermitKept
  BY DEF ConsoleInit, PortKept, PermitKept
<1>5. TurnsKept
  BY DEF ConsoleInit, TurnsKept, Turns, IOIsAtomic, Interrupted
<1>6. InputKept
  BY DEF ConsoleInit, InputKept
<1> QED BY <1>1, <1>2, <1>3, <1>4, <1>5, <1>6 DEF ConsoleInv

USE Zenon DEF ConGoto, conSemVars, procVars, polledVars, portVars

(* LockOf(p) is one of the two locks of console.c.                         *)
LEMMA LockOfIsLock == \A p : LockOf(p) \in Lock
BY DEF LockOf, Lock

(* What con_io prints for a character: a user's newline is two.            *)
LEMMA PutchesIs ==
    ASSUME NEW w, NEW ch \in {"c", "\n"}
    PROVE  Putches(w, ch) \in Seq({"c", "\n", "\r"}) /\ Len(Putches(w, ch)) > 0
<1>1. CASE w \in UserWriter /\ ch = "\n"
  <2>1. Putches(w, ch) = << "\r", "\n" >>
    BY <1>1 DEF Putches
  <2> QED BY SMT, <2>1
<1>2. CASE ~ (w \in UserWriter /\ ch = "\n")
  <2>1. Putches(w, ch) = << ch >>
    BY <1>2 DEF Putches
  <2> QED BY SMT, <2>1
<1> QED BY <1>1, <1>2

(* con_io goes on to a character, and has something to print for it.       *)
LEMMA NextCharMoves ==
    ASSUME ConsoleInv, NEW w \in Writer, NextChar(w)
    PROVE  /\ con_pc[w] = "loop" /\ con_pc' = [con_pc EXCEPT ![w] = "putch"]
           /\ pos' = [pos EXCEPT ![w] = @ + 1] /\ owner' = owner
           /\ \E chars \in Seq({"c", "\n", "\r"}) :
                 Len(chars) > 0 /\ pend' = [pend EXCEPT ![w] = chars]
<1> DEFINE ch == Text[w][pos[w] + 1]
<1>1. pos[w] \in Nat /\ pos[w] < Len(Text[w]) /\ Text[w] \in Seq({"c", "\n"})
  BY ConsoleConstants DEF NextChar, ConsoleInv, ConsoleTypes, ProcTypes
<1>2. ch \in {"c", "\n"}
  BY SMT, <1>1
<1>3. pend' = [pend EXCEPT ![w] = Putches(w, ch)]
  BY DEF NextChar
<1> HIDE DEF ch
<1>4. Putches(w, ch) \in Seq({"c", "\n", "\r"}) /\ Len(Putches(w, ch)) > 0
  BY <1>2, PutchesIs
<1> QED BY <1>3, <1>4 DEF NextChar

(* putch_intr sends the first of the characters that are pending.          *)
LEMMA SendMoves ==
    ASSUME ConsoleInv, NEW w \in Writer, PutchSend(w)
    PROVE  /\ con_pc[w] = "send" /\ ~ ls_wbusy /\ ls_wbusy' = TRUE
           /\ \E where \in {"loop", "putch"}, rest \in Seq({"c", "\n", "\r"}) :
                 /\ con_pc' = [con_pc EXCEPT ![w] = where] /\ pend' = [pend EXCEPT ![w] = rest]
                 /\ where = "putch" => Len(rest) > 0
           /\ \E ch \in {"c", "\n", "\r"} : PortSend(w, ch)
<1>1. con_pc[w] = "send" /\ ~ ls_wbusy
  BY DEF PutchSend, ConsoleInv, PermitKept
<1>2. /\ ls_wbusy' = TRUE /\ PortSend(w, Head(pend[w])) /\ pend' = [pend EXCEPT ![w] = Tail(pend[w])]
      /\ con_pc' = [con_pc EXCEPT ![w] = IF Len(pend[w]) = 1 THEN "loop" ELSE "putch"]
  BY <1>1 DEF PutchSend
<1>3. pend[w] \in Seq({"c", "\n", "\r"}) /\ Len(pend[w]) \in Nat /\ Len(pend[w]) > 0
  BY SMT, <1>1 DEF ConsoleInv, ConsoleTypes, ProcTypes, PlacesKept
<1>4. Tail(pend[w]) \in Seq({"c", "\n", "\r"}) /\ Head(pend[w]) \in {"c", "\n", "\r"}
      /\ Len(Tail(pend[w])) = Len(pend[w]) - 1
  BY SMT, <1>3
<1>5. Len(pend[w]) # 1 => Len(Tail(pend[w])) > 0
  <2>1. ASSUME NEW n \in Nat, NEW m, n > 0, m = n - 1, n # 1 PROVE m > 0
    BY SMT, <2>1
  <2> QED BY <1>3, <1>4, <2>1
<1>6. ASSUME NEW where, where = (IF Len(pend[w]) = 1 THEN "loop" ELSE "putch")
      PROVE  where \in {"loop", "putch"} /\ (where = "putch" => Len(Tail(pend[w])) > 0)
  BY <1>5, <1>6
<1> QED BY <1>1, <1>2, <1>4, <1>6

(* getch_intr returns the character, and perhaps con_io with it.           *)
LEMMA TakeMoves ==
    ASSUME NEW r, GetchTakes(r)
    PROVE  /\ con_pc[r] = "take" /\ in' = Append(in, [by |-> r, ch |-> cs_gotchar])
           /\ r \in KernelReader \cup UserReader
           /\ con_pc' = [con_pc EXCEPT ![r] = "done"] \/ con_pc' = [con_pc EXCEPT ![r] = "getch"]
           /\ owner' = owner \/ (r \in UserReader /\ con_pc' = [con_pc EXCEPT ![r] = "done"]
                                 /\ owner' = [owner EXCEPT ![LockOf(r)] = NULL])
           /\ UNCHANGED <<conSemVars, pend, polledVars, portVars, out>>
BY DEF GetchTakes, ConReturn

-----------------------------------------------------------------------------
(* The types of semaphores, port and polled output.                        *)
LEMMA PortTypesStep ==
    ASSUME ConsoleInv, [ConsoleNext]_consoleVars
    PROVE  PortTypes'
<1> USE DEF ConsoleInv, ConsoleTypes, PortTypes
<1>1. ASSUME NEW w \in Writer, PutchWait(w) PROVE PortTypes'
  BY SMT, <1>1 DEF PutchWait, Positive
<1>2. ASSUME NEW w \in Writer, PutchSend(w) PROVE PortTypes'
  BY <1>2, SendMoves DEF PutchSend, PortSend
<1>3. ASSUME PolledCall PROVE PortTypes'
  BY SMT, <1>3, ConsoleConstants DEF PolledCall
<1>4. ASSUME PolledStep PROVE PortTypes'
  BY <1>4 DEF PolledStep, PolledDrained, PolledSend, PolledReturn, PortSend
<1>5. ASSUME NEW r \in Reader, GetchWait(r) PROVE PortTypes'
  BY SMT, <1>5 DEF GetchWait, Positive
<1>6. ASSUME PortReceived PROVE PortTypes'
  BY SMT, <1>6, ConsoleConstants DEF PortReceived
<1>7. ASSUME PortSent \/ LserIrq PROVE PortTypes'
  BY SMT, <1>7 DEF PortSent, LserIrq
<1>8. ASSUME UNCHANGED <<cs_wsem, cs_rsem, cs_gotchar, polledVars, portVars>> PROVE PortTypes'
  BY <1>8
<1> QED
  BY <1>1, <1>2, <1>3, <1>4, <1>5, <1>6, <1>7, <1>8
     DEF ConsoleNext, consoleVars, WriterStep, ReaderStep, LockAcquire, NextChar, WriteReturns, GetchTakes

(* The types of locks and processes.                                       *)
LEMMA ProcTypesStep ==
    ASSUME ConsoleInv, [ConsoleNext]_consoleVars
    PROVE  ProcTypes'
<1>1. ASSUME NEW p \in Writer \cup Reader, LockAcquire(p) PROVE ProcTypes'
  BY <1>1, LockOfIsLock DEF ConsoleInv, ConsoleTypes, ProcTypes, LockAcquire
<1>2. ASSUME NEW w \in Writer, NextChar(w) PROVE ProcTypes'
  <2>1. PICK chars \in Seq({"c", "\n", "\r"}) : pend' = [pend EXCEPT ![w] = chars]
    BY <1>2, NextCharMoves
  <2>2. UNCHANGED owner /\ con_pc' = [con_pc EXCEPT ![w] = "putch"] /\ pos' = [pos EXCEPT ![w] = @ + 1]
    BY <1>2, NextCharMoves
  <2> QED BY SMT, <2>1, <2>2 DEF ConsoleInv, ConsoleTypes, ProcTypes
<1>3. ASSUME NEW w \in Writer, WriteReturns(w) PROVE ProcTypes'
  BY <1>3, LockOfIsLock DEF ConsoleInv, ConsoleTypes, ProcTypes, WriteReturns, ConReturn
<1>4. ASSUME NEW w \in Writer, PutchWait(w) PROVE ProcTypes'
  BY <1>4 DEF ConsoleInv, ConsoleTypes, ProcTypes, PutchWait
<1>5. ASSUME NEW w \in Writer, PutchSend(w) PROVE ProcTypes'
  <2>1. UNCHANGED <<owner, pos>>
    BY <1>5 DEF PutchSend
  <2> QED BY <1>5, <2>1, SendMoves DEF ConsoleInv, ConsoleTypes, ProcTypes
<1>6. ASSUME NEW r \in Reader, GetchWait(r) PROVE ProcTypes'
  BY <1>6 DEF ConsoleInv, ConsoleTypes, ProcTypes, GetchWait
<1>7. ASSUME NEW r \in Reader, GetchTakes(r) PROVE ProcTypes'
  <2>1. pos' = [pos EXCEPT ![r] = @ + 1]
    BY <1>7 DEF GetchTakes
  <2>2. PICK where \in {"done", "getch"} : con_pc' = [con_pc EXCEPT ![r] = where]
    BY <1>7, TakeMoves
  <2>3. owner' = owner \/ owner' = [owner EXCEPT ![LockOf(r)] = NULL]
    BY <1>7, TakeMoves
  <2>4. UNCHANGED pend
    BY <1>7, TakeMoves
  <2> QED BY SMT, <2>1, <2>2, <2>3, <2>4, LockOfIsLock DEF ConsoleInv, ConsoleTypes, ProcTypes
<1>8. ASSUME UNCHANGED procVars PROVE ProcTypes'
  BY <1>8 DEF ConsoleInv, ConsoleTypes, ProcTypes
<1> QED
  BY <1>1, <1>2, <1>3, <1>4, <1>5, <1>6, <1>7, <1>8
     DEF ConsoleNext, consoleVars, WriterStep, ReaderStep, PolledCall, PolledStep, PolledDrained,
         PolledSend, PolledReturn, PortSent, PortReceived, LserIrq

(* Writers stay in con_io and putch_intr, readers in con_io and getch.     *)
LEMMA PlacesStep ==
    ASSUME ConsoleInv, [ConsoleNext]_consoleVars
    PROVE  PlacesKept'
<1> USE ConsoleConstants DEF ConsoleInv, ConsoleTypes, ProcTypes, PlacesKept, Writer, Reader
<1>1. ASSUME NEW p \in Writer \cup Reader, LockAcquire(p) PROVE PlacesKept'
  BY SMT, <1>1 DEF LockAcquire
<1>2. ASSUME NEW w \in Writer, NEW where \in {"loop", "putch", "done"}, NEW rest \in Seq({"c", "\n", "\r"}),
             con_pc' = [con_pc EXCEPT ![w] = where], pend' = [pend EXCEPT ![w] = rest],
             where = "putch" => Len(rest) > 0
      PROVE  PlacesKept'
  BY SMT, <1>2
<1>3. ASSUME NEW w \in Writer, NextChar(w) \/ PutchSend(w) PROVE PlacesKept'
  <2>1. CASE NextChar(w)
    <3>1. PICK chars \in Seq({"c", "\n", "\r"}) : Len(chars) > 0 /\ pend' = [pend EXCEPT ![w] = chars]
      BY <2>1, NextCharMoves
    <3>2. con_pc' = [con_pc EXCEPT ![w] = "putch"]
      BY <2>1, NextCharMoves
    <3> QED BY <1>2, <3>1, <3>2
  <2>2. CASE PutchSend(w)
    <3>1. PICK where \in {"loop", "putch"}, rest \in Seq({"c", "\n", "\r"}) :
             /\ con_pc' = [con_pc EXCEPT ![w] = where] /\ pend' = [pend EXCEPT ![w] = rest]
             /\ where = "putch" => Len(rest) > 0
      BY <2>2, SendMoves
    <3> QED BY <1>2, <3>1
  <2> QED BY <1>3, <2>1, <2>2
<1>4. ASSUME NEW w \in Writer, WriteReturns(w) PROVE PlacesKept'
  BY <1>4 DEF WriteReturns, ConReturn
<1>8. ASSUME NEW w \in Writer, PutchWait(w) PROVE PlacesKept'
  <2>1. con_pc[w] = "putch" /\ con_pc' = [con_pc EXCEPT ![w] = "send"] /\ pend' = pend
    BY <1>8 DEF PutchWait
  <2> QED BY <2>1
<1>5. ASSUME NEW r \in Reader, GetchWait(r) PROVE PlacesKept'
  BY <1>5 DEF GetchWait
<1>6. ASSUME NEW r \in Reader, GetchTakes(r) PROVE PlacesKept'
  <2>1. UNCHANGED pend
    BY <1>6, TakeMoves
  <2>2. PICK where \in {"done", "getch"} : con_pc' = [con_pc EXCEPT ![r] = where]
    BY <1>6, TakeMoves
  <2> QED BY SMT, <2>1, <2>2
<1>7. ASSUME UNCHANGED <<con_pc, pend>> PROVE PlacesKept'
  BY <1>7
<1> QED
  BY <1>1, <1>3, <1>4, <1>5, <1>6, <1>7, <1>8
     DEF ConsoleNext, consoleVars, WriterStep, ReaderStep, PolledCall, PolledStep, PolledDrained,
         PolledSend, PolledReturn, PortSent, PortReceived, LserIrq

(* The locks of console.c exclude.                                         *)
LEMMA LocksStep ==
    ASSUME ConsoleInv, [ConsoleNext]_consoleVars
    PROVE  LocksKept'
<1> USE ConsoleConstants, LockOfIsLock DEF ConsoleInv, ConsoleTypes, ProcTypes, PlacesKept, LocksKept, Holds
<1>1. ASSUME NEW p \in Writer \cup Reader, LockAcquire(p) PROVE LocksKept'
  BY SMT, <1>1 DEF LockAcquire, Unlocked
<1>2. ASSUME NEW w \in Writer, NextChar(w) \/ PutchWait(w) PROVE LocksKept'
  BY <1>2 DEF NextChar, PutchWait
<1>3. ASSUME NEW w \in Writer, WriteReturns(w) PROVE LocksKept'
  BY <1>3 DEF WriteReturns, ConReturn
<1>5. ASSUME NEW w \in Writer, PutchSend(w) PROVE LocksKept'
  BY <1>5 DEF PutchSend
<1>7. ASSUME NEW r \in Reader, GetchWait(r) PROVE LocksKept'
  BY <1>7 DEF GetchWait
<1>8. ASSUME NEW r \in Reader, GetchTakes(r) PROVE LocksKept'
  BY SMT, <1>8 DEF GetchTakes, ConReturn, Reader
<1>9. ASSUME UNCHANGED <<con_pc, owner>> PROVE LocksKept'
  BY <1>9
<1> QED
  BY <1>1, <1>2, <1>3, <1>5, <1>7, <1>8, <1>9
     DEF ConsoleNext, consoleVars, WriterStep, ReaderStep, PolledCall, PolledStep, PolledDrained, PolledSend,
         PolledReturn, PortSent, PortReceived, LserIrq

(* The port: interrupt-driven and polled characters.                       *)
LEMMA PortStep ==
    ASSUME ConsoleInv, [ConsoleNext]_consoleVars
    PROVE  PortKept'
<1> USE DEF ConsoleInv, ConsoleTypes, PortTypes, PortKept
<1>1. ASSUME NEW w \in Writer, PutchSend(w) PROVE PortKept'
  BY <1>1 DEF PutchSend, PortSend, PermitKept, Running
<1>2. ASSUME PolledCall PROVE PortKept'
  BY <1>2 DEF PolledCall, Running
<1>3. ASSUME PolledDrained PROVE PortKept'
  BY <1>3 DEF PolledDrained
<1>4. ASSUME PolledSend PROVE PortKept'
  BY <1>4 DEF PolledSend, PortSend
<1>5. ASSUME PolledReturn PROVE PortKept'
  BY <1>5 DEF PolledReturn, LeftActive
<1>6. ASSUME PortSent PROVE PortKept'
  BY <1>6 DEF PortSent
<1>7. ASSUME LserIrq PROVE PortKept'
  BY <1>7 DEF LserIrq, Running
<1>8. ASSUME UNCHANGED <<polled, irqpending, ls_wbusy, tx, wactive, fault>> PROVE PortKept'
  BY <1>8
<1> QED
  BY <1>1, <1>2, <1>3, <1>4, <1>5, <1>6, <1>7, <1>8
     DEF ConsoleNext, consoleVars, WriterStep, ReaderStep, LockAcquire, NextChar, WriteReturns, PutchWait,
         GetchWait, GetchTakes, PolledStep, PortReceived

(* P before a character is sent, V in its interrupt.                       *)
LEMMA PermitStep ==
    ASSUME ConsoleInv, [ConsoleNext]_consoleVars
    PROVE  PermitKept'
<1> USE ConsoleConstants DEF ConsoleInv, ConsoleTypes, PortTypes, ProcTypes, PermitKept
<1>1. ASSUME NEW w \in Writer, PutchSend(w) PROVE PermitKept'
  <2>1. con_pc[w] = "send" /\ ls_wbusy' = TRUE /\ cs_wsem = 0 /\ cs_wsem' = cs_wsem
    BY <1>1, SendMoves DEF PutchSend
  <2>2. PICK where \in {"loop", "putch"} : con_pc' = [con_pc EXCEPT ![w] = where]
    BY <1>1, SendMoves
  <2>3. \A v \in Writer : con_pc'[v] # "send"
    BY <2>1, <2>2
  <2> QED BY <2>1, <2>3
<1>2. ASSUME NEW w \in Writer, PutchWait(w) PROVE PermitKept'
  BY SMT, <1>2 DEF PutchWait, Positive
<1>3. ASSUME LserIrq PROVE PermitKept'
  <2>1. UNCHANGED con_pc
    BY <1>3 DEF LserIrq
  <2>2. CASE wactive
    <3>1. ls_wbusy /\ cs_wsem = 0 /\ \A w \in Writer : con_pc[w] # "send"
      BY <1>3, <2>2 DEF LserIrq, PortKept, Running
    <3>2. cs_wsem' = cs_wsem + 1
      BY <1>3, <2>2 DEF LserIrq
    <3>3. ~ ls_wbusy'
      BY <1>3, <2>2 DEF LserIrq
    <3> QED BY SMT, <2>1, <3>1, <3>2, <3>3
  <2>3. CASE ~ wactive
    <3>1. (ls_wbusy' <=> ls_wbusy) /\ cs_wsem' = cs_wsem
      BY <1>3, <2>3 DEF LserIrq
    <3> QED BY <2>1, <3>1
  <2> QED BY <2>2, <2>3
<1>4. ASSUME NEW p \in Writer \cup Reader, NEW where \in {"loop", "putch", "getch", "take", "done"},
             con_pc[p] # "send", con_pc' = [con_pc EXCEPT ![p] = where],
             UNCHANGED <<cs_wsem, ls_wbusy>>
      PROVE  PermitKept'
  BY <1>4
<1>6. ASSUME NEW p \in Writer \cup Reader, LockAcquire(p) PROVE PermitKept'
  BY <1>4, <1>6 DEF LockAcquire
<1>7. ASSUME NEW w \in Writer, NextChar(w) \/ WriteReturns(w) PROVE PermitKept'
  BY <1>4, <1>7 DEF NextChar, WriteReturns, ConReturn
<1>8. ASSUME NEW r \in Reader, GetchWait(r) PROVE PermitKept'
  BY <1>4, <1>8 DEF GetchWait
<1>9. ASSUME NEW r \in Reader, GetchTakes(r) PROVE PermitKept'
  <2>1. con_pc[r] = "take" /\ UNCHANGED <<cs_wsem, ls_wbusy>>
    BY <1>9, TakeMoves
  <2>2. PICK where \in {"done", "getch"} : con_pc' = [con_pc EXCEPT ![r] = where]
    BY <1>9, TakeMoves
  <2> QED BY <1>4, <2>1, <2>2
<1>5. ASSUME UNCHANGED <<con_pc, cs_wsem, ls_wbusy>> PROVE PermitKept'
  BY <1>5
<1> QED
  BY <1>1, <1>2, <1>3, <1>5, <1>6, <1>7, <1>8, <1>9
     DEF ConsoleNext, consoleVars, WriterStep, ReaderStep, PolledCall, PolledStep, PolledDrained, PolledSend,
         PolledReturn, PortSent, PortReceived

-----------------------------------------------------------------------------
(* A character added by a process that holds its lock, or by one that has  *)
(* none, interrupts nobody.                                                *)
LEMMA AddKeepsTurns ==
    ASSUME ConsoleInv, NEW E, NEW s \in Seq(E), NEW e \in E,
           Turns(s, con_pc), ~ Interrupted(s),
           e.by \in Locking => Holds(e.by)
    PROVE  Turns(Append(s, e), con_pc) /\ ~ Interrupted(Append(s, e))
<1> DEFINE z == Append(s, e)
<1>1. /\ Len(s) \in Nat /\ DOMAIN s = 1..Len(s) /\ DOMAIN z = 1..(Len(s) + 1)
      /\ \A a \in 1..Len(s) : z[a] = s[a]
      /\ z[Len(s) + 1] = e
  BY SMT
<1> HIDE DEF z
<1>2. Locking \subseteq Writer \cup Reader
  BY DEF Locking, Reader
<1>3. ASSUME e.by \in Locking PROVE con_pc[e.by] # "lock" /\ con_pc[e.by] # "done"
  BY <1>3 DEF Holds
<1>4. ASSUME e.by \in Locking, NEW a \in 1..Len(s), s[a].by \in Locking, s[a].by # e.by,
             LockOf(s[a].by) = LockOf(e.by)
      PROVE  con_pc[s[a].by] = "done"
  <2>1. con_pc[s[a].by] # "lock"
    BY <1>1, <1>4 DEF Turns
  <2>2. owner[LockOf(e.by)] = e.by
    BY <1>2, <1>4 DEF ConsoleInv, LocksKept
  <2>3. ~ Holds(s[a].by)
    BY <1>2, <1>4, <2>2 DEF ConsoleInv, LocksKept
  <2> QED BY <1>4, <2>1, <2>3 DEF Locking, Holds, ConsoleInv, PlacesKept, Reader
<1>5. \A a \in DOMAIN z : z[a].by \in Locking => con_pc[z[a].by] # "lock"
  BY SMT, <1>1, <1>3 DEF Turns
<1>6. ASSUME NEW a \in DOMAIN z, NEW b \in DOMAIN z,
             a < b, z[a].by # z[b].by, z[a].by \in Locking, z[b].by \in Locking,
             LockOf(z[a].by) = LockOf(z[b].by)
      PROVE  con_pc[z[a].by] = "done"
  <2>1. CASE b = Len(s) + 1
    BY SMT, <1>1, <1>4, <1>6, <2>1
  <2>2. CASE b # Len(s) + 1
    BY SMT, <1>1, <1>6, <2>2 DEF Turns
  <2> QED BY <2>1, <2>2
<1>7. ASSUME NEW a \in DOMAIN z, NEW b \in DOMAIN z, NEW c \in DOMAIN z,
             a < b, b < c, z[a].by = z[c].by, z[b].by # z[a].by,
             z[a].by \in Locking, z[b].by \in Locking, LockOf(z[a].by) = LockOf(z[b].by)
      PROVE  FALSE
  <2>1. CASE c = Len(s) + 1
    <3>1. con_pc[z[a].by] = "done"
      BY <1>6, <1>7
    <3> QED BY <1>1, <1>3, <1>7, <2>1, <3>1
  <2>2. CASE c # Len(s) + 1
    <3>1. /\ a \in DOMAIN s /\ b \in DOMAIN s /\ c \in DOMAIN s
          /\ z[a] = s[a] /\ z[b] = s[b] /\ z[c] = s[c]
      BY SMT, <1>1, <1>7, <2>2
    <3> QED BY <1>7, <3>1 DEF Interrupted, Locking
  <2> QED BY <2>1, <2>2
<1> QED BY <1>5, <1>6, <1>7 DEF z, Turns, Interrupted, Locking

(* A process that passes its lock does not come back to it, and one that   *)
(* has returned stays away.                                                *)
Onward == \A p \in Writer \cup Reader : /\ con_pc[p] # "lock" => con_pc'[p] # "lock"
                                        /\ con_pc[p] = "done" => con_pc'[p] = "done"

(* So what was printed and read stays in turns.                            *)
LEMMA OnwardKeepsTurns ==
    ASSUME Onward, NEW s, Turns(s, con_pc)
    PROVE  Turns(s, con_pc')
BY DEF Onward, Turns, Locking, Reader

(* No step takes a process back.                                           *)
LEMMA StepsOnward ==
    ASSUME ConsoleInv, [ConsoleNext]_consoleVars
    PROVE  Onward
<1> USE DEF ConsoleInv, ConsoleTypes, ProcTypes, Onward
<1>1. ASSUME NEW p \in Writer \cup Reader, LockAcquire(p) PROVE Onward
  BY <1>1 DEF LockAcquire
<1>2. ASSUME NEW w \in Writer, NextChar(w) \/ WriteReturns(w) \/ PutchWait(w) PROVE Onward
  BY <1>2 DEF NextChar, WriteReturns, ConReturn, PutchWait
<1>3. ASSUME NEW w \in Writer, PutchSend(w) PROVE Onward
  BY <1>3 DEF PutchSend
<1>4. ASSUME NEW r \in Reader, GetchWait(r) \/ GetchTakes(r) PROVE Onward
  BY <1>4 DEF GetchWait, GetchTakes, ConReturn
<1>5. ASSUME UNCHANGED con_pc PROVE Onward
  BY <1>5
<1> QED
  BY <1>1, <1>2, <1>3, <1>4, <1>5
     DEF ConsoleNext, consoleVars, WriterStep, ReaderStep, PolledCall, PolledStep, PolledDrained,
         PolledSend, PolledReturn, PortSent, PortReceived, LserIrq

(* A step adds at most one character to what was printed and to what was   *)
(* read, and its process, if it is one that locks, holds its lock.         *)
LEMMA LogGrows ==
    ASSUME ConsoleInv, [ConsoleNext]_consoleVars
    PROVE  /\ \/ out' = out
              \/ \E e \in Printed : out' = Append(out, e) /\ (e.by \in Locking => Holds(e.by))
           /\ \/ in' = in
              \/ \E e \in GotChar : in' = Append(in, e) /\ (e.by \in Locking => Holds(e.by))
<1>1. \/ out' = out
      \/ \E e \in Printed : out' = Append(out, e) /\ (e.by \in Locking => Holds(e.by))
  <2>1. ASSUME NEW w \in Writer, PutchSend(w) PROVE <1>1!2
    <3>1. con_pc[w] = "send"
      BY <2>1, SendMoves
    <3>2. PICK ch \in {"c", "\n", "\r"} : out' = Append(out, [by |-> w, ch |-> ch])
      BY <2>1, SendMoves DEF PortSend
    <3> QED BY SMT, <3>1, <3>2 DEF Holds, Printed
  <2>2. ASSUME PolledSend PROVE <1>1!2
    BY SMT, <2>2, ConsoleConstants DEF PolledSend, PortSend, Locking, Reader, Printed
  <2>3. (~ \E w \in Writer : PutchSend(w)) /\ ~ PolledSend => out' = out
    BY DEF ConsoleNext, consoleVars, WriterStep, ReaderStep, PolledCall, PolledStep, PolledDrained,
           PolledReturn, PortSent, PortReceived, LserIrq, LockAcquire, NextChar, WriteReturns,
           PutchWait, GetchWait, GetchTakes
  <2> QED BY <2>1, <2>2, <2>3
<1>2. \/ in' = in
      \/ \E e \in GotChar : in' = Append(in, e) /\ (e.by \in Locking => Holds(e.by))
  <2>1. ASSUME NEW r \in Reader, GetchTakes(r) PROVE <1>2!2
    <3>1. con_pc[r] = "take" /\ in' = Append(in, [by |-> r, ch |-> cs_gotchar])
      BY <2>1, TakeMoves
    <3>2. r \in Locking => Holds(r)
      BY <3>1, ConsoleConstants DEF Locking, Holds, Reader
    <3>3. cs_gotchar \in 0..MaxTyped
      BY DEF ConsoleInv, ConsoleTypes, PortTypes
    <3> QED BY SMT, <3>1, <3>2, <3>3 DEF GotChar
  <2>2. (~ \E r \in Reader : GetchTakes(r)) => in' = in
    BY DEF ConsoleNext, consoleVars, WriterStep, ReaderStep, PolledCall, PolledStep, PolledDrained,
           PolledSend, PolledReturn, PortSent, PortReceived, LserIrq, LockAcquire, NextChar,
           WriteReturns, PutchWait, PutchSend, GetchWait
  <2> QED BY <2>1, <2>2
<1> QED BY <1>1, <1>2

(* A step does not make two calls under one lock mix.                      *)
LEMMA TurnsStep ==
    ASSUME ConsoleInv, [ConsoleNext]_consoleVars
    PROVE  TurnsKept'
<1>1. /\ out \in Seq(Printed) /\ in \in Seq(GotChar)
      /\ Turns(out, con_pc) /\ Turns(in, con_pc) /\ ~ Interrupted(out) /\ ~ Interrupted(in)
  BY DEF ConsoleInv, ConsoleTypes, LogTypes, TurnsKept, IOIsAtomic
<1>2. ASSUME NEW e \in Printed, out' = Append(out, e), e.by \in Locking => Holds(e.by)
      PROVE  Turns(out', con_pc) /\ ~ Interrupted(out')
  BY <1>1, <1>2, AddKeepsTurns
<1>3. ASSUME NEW e \in GotChar, in' = Append(in, e), e.by \in Locking => Holds(e.by)
      PROVE  Turns(in', con_pc) /\ ~ Interrupted(in')
  BY <1>1, <1>3, AddKeepsTurns
<1>6. Turns(out', con_pc) /\ Turns(in', con_pc) /\ ~ Interrupted(out') /\ ~ Interrupted(in')
  BY <1>1, <1>2, <1>3, LogGrows
<1>7. Turns(out', con_pc') /\ Turns(in', con_pc')
  BY <1>6, StepsOnward, OnwardKeepsTurns
<1>8. (~ Interrupted(out))' /\ (~ Interrupted(in))'
  BY <1>6 DEF Interrupted, LockOf
<1>9. Turns(out, con_pc)' /\ Turns(in, con_pc)'
  BY <1>7 DEF Turns, LockOf
<1> QED BY <1>8, <1>9 DEF TurnsKept, IOIsAtomic

-----------------------------------------------------------------------------
(* What is read is what was typed, in order.                               *)
LEMMA InputStep ==
    ASSUME ConsoleInv, [ConsoleNext]_consoleVars, Paced
    PROVE  InputKept'
<1> USE DEF ConsoleInv, ConsoleTypes, PortTypes, ProcTypes, LogTypes, InputKept
<1>1. ASSUME NEW r \in Reader, GetchWait(r) PROVE InputKept'
  BY SMT, <1>1 DEF GetchWait, Positive
<1>2. ASSUME NEW r \in Reader, GetchTakes(r) PROVE InputKept'
  <2>1. /\ con_pc[r] = "take" /\ in' = Append(in, [by |-> r, ch |-> cs_gotchar])
        /\ UNCHANGED <<typed, cs_gotchar, cs_rsem, ractive, rx>>
    BY <1>2, TakeMoves
  <2>2. Len(in) \in Nat /\ cs_gotchar = Len(in) + 1 /\ typed = Len(in) + 1 /\ cs_rsem = 0 /\ ~ ractive
    BY SMT, <2>1
  <2>3. Len(in') = Len(in) + 1 /\ \A a \in DOMAIN in' : in'[a].ch = a
    BY SMT, <2>1, <2>2
  <2>4. \A q \in Reader : con_pc'[q] # "take"
    BY <1>2, <2>1, TakeMoves
  <2> QED BY SMT, <2>1, <2>2, <2>3, <2>4
<1>3. ASSUME PortReceived PROVE InputKept'
  BY SMT, <1>3 DEF PortReceived
<1>4. ASSUME LserIrq PROVE InputKept'
  BY SMT, <1>4 DEF LserIrq
<1>5. ASSUME \A r \in Reader : con_pc'[r] = "take" => con_pc[r] = "take",
             UNCHANGED <<typed, in, cs_gotchar, cs_rsem, ractive, rx>>
      PROVE  InputKept'
  BY <1>5
<1>6. ASSUME NEW p \in Writer \cup Reader, LockAcquire(p) PROVE InputKept'
  BY <1>5, <1>6 DEF LockAcquire
<1>7. ASSUME NEW w \in Writer, NextChar(w) \/ WriteReturns(w) \/ PutchWait(w) PROVE InputKept'
  BY <1>5, <1>7 DEF NextChar, WriteReturns, ConReturn, PutchWait
<1>8. ASSUME NEW w \in Writer, PutchSend(w) PROVE InputKept'
  <2>1. UNCHANGED <<typed, in, cs_gotchar, cs_rsem, ractive, rx>>
    BY <1>8 DEF PutchSend
  <2> QED BY <1>5, <1>8, <2>1, SendMoves
<1>9. ASSUME UNCHANGED <<con_pc, typed, in, cs_gotchar, cs_rsem, ractive, rx>> PROVE InputKept'
  BY <1>5, <1>9
<1> QED
  BY <1>1, <1>2, <1>3, <1>4, <1>6, <1>7, <1>8, <1>9
     DEF ConsoleNext, consoleVars, WriterStep, ReaderStep, PolledCall, PolledStep, PolledDrained,
         PolledSend, PolledReturn, PortSent

-----------------------------------------------------------------------------
(* The types of what was printed and read.                                 *)
LEMMA LogTypesStep ==
    ASSUME ConsoleInv, [ConsoleNext]_consoleVars
    PROVE  LogTypes'
<1>1. out \in Seq(Printed) /\ in \in Seq(GotChar)
  BY DEF ConsoleInv, ConsoleTypes, LogTypes
<1>2. out' = out \/ \E e \in Printed : out' = Append(out, e)
  BY LogGrows
<1>3. in' = in \/ \E e \in GotChar : in' = Append(in, e)
  BY LogGrows
<1>4. out' \in Seq(Printed)
  BY SMT, <1>1, <1>2
<1>5. in' \in Seq(GotChar)
  BY SMT, <1>1, <1>3
<1>6. Printed' = Printed /\ GotChar' = GotChar
  BY DEF Printed, GotChar
<1> QED BY <1>4, <1>5, <1>6 DEF LogTypes

(* The invariant is inductive.                                             *)
LEMMA ConsoleInvStep == ConsoleInv /\ [ConsoleNext]_consoleVars => ConsoleInv'
<1> SUFFICES ASSUME ConsoleInv, [ConsoleNext]_consoleVars PROVE ConsoleInv'
  OBVIOUS
<1>1. ConsoleTypes'
  BY PortTypesStep, ProcTypesStep, LogTypesStep DEF ConsoleTypes
<1> QED BY <1>1, PlacesStep, LocksStep, PortStep, PermitStep, TurnsStep, InputStep DEF ConsoleInv

(* The flags of the driver and of the port are Boolean.                    *)
Flags == ls_wbusy \in BOOLEAN /\ irqpending \in BOOLEAN /\ wactive \in BOOLEAN /\ ractive \in BOOLEAN

(* They stay Boolean.                                                      *)
LEMMA FlagsStep ==
    ASSUME Flags, [ConsoleNext]_consoleVars
    PROVE  Flags'
<1> USE DEF Flags
<1>1. ASSUME NEW w \in Writer, PutchSend(w) PROVE Flags'
  BY <1>1 DEF PutchSend
<1>2. ASSUME PolledCall PROVE Flags'
  BY <1>2 DEF PolledCall
<1>3. ASSUME PolledStep PROVE Flags'
  BY <1>3 DEF PolledStep, PolledDrained, PolledSend, PolledReturn, LeftActive
<1>4. ASSUME PortSent \/ PortReceived PROVE Flags'
  BY <1>4 DEF PortSent, PortReceived
<1>5. ASSUME LserIrq PROVE Flags'
  BY <1>5 DEF LserIrq
<1>6. ASSUME UNCHANGED <<ls_wbusy, irqpending, wactive, ractive>> PROVE Flags'
  BY <1>6
<1> QED
  BY <1>1, <1>2, <1>3, <1>4, <1>5, <1>6
     DEF ConsoleNext, consoleVars, WriterStep, ReaderStep, LockAcquire, NextChar, WriteReturns,
         PutchWait, GetchWait, GetchTakes

(* The invariant is stronger than ConsoleSound.                            *)
LEMMA ConsoleInvIsSound == ConsoleInv /\ Flags => ConsoleSound
<1> SUFFICES ASSUME ConsoleInv, Flags PROVE ConsoleSound
  OBVIOUS
<1>1. ConsoleTypeOK
  BY DEF ConsoleInv, ConsoleTypes, PortTypes, ProcTypes, LogTypes, Printed, GotChar, Flags, PortKept,
         ConsoleTypeOK
<1>2. LineIsClear
  BY DEF ConsoleInv, PortKept, LineIsClear
<1>3. OnePermit
  <2>1. cs_wsem \in Nat
    BY DEF ConsoleInv, ConsoleTypes, PortTypes
  <2>2. cs_wsem + (IF ls_wbusy THEN 1 ELSE 0) + (IF \E w \in Writer : con_pc[w] = "send" THEN 1 ELSE 0) = 1
    <3>1. CASE ls_wbusy
      <4>1. cs_wsem = 0 /\ ~ \E w \in Writer : con_pc[w] = "send"
        BY <3>1 DEF ConsoleInv, PermitKept
      <4> QED BY SMT, <3>1, <4>1
    <3>2. CASE ~ ls_wbusy /\ \E w \in Writer : con_pc[w] = "send"
      <4>1. cs_wsem = 0
        BY <3>2 DEF ConsoleInv, PermitKept
      <4> QED BY SMT, <3>2, <4>1
    <3>3. CASE ~ ls_wbusy /\ ~ \E w \in Writer : con_pc[w] = "send"
      <4>1. cs_wsem = 1
        BY <3>3 DEF ConsoleInv, PermitKept
      <4> QED BY SMT, <3>3, <4>1
    <3> QED BY <3>1, <3>2, <3>3
  <2> QED BY <2>2 DEF ConsoleInv, PermitKept, PortKept, OnePermit
<1>4. IOIsAtomic /\ InputInOrder
  BY DEF ConsoleInv, TurnsKept, InputKept, InputInOrder
<1> QED BY <1>1, <1>2, <1>3, <1>4 DEF ConsoleSound

(* The console is sound for any numbers of processes, texts and characters *)
(* typed: one permit to write, no character lost to a busy port or to      *)
(* polled output, user input and output in one piece, and input in order   *)
(* as long as typing is paced.                                             *)
THEOREM ConsoleIsSound == ConsoleSpec => []ConsoleSound
<1>1. ConsoleInit => Flags
  BY DEF ConsoleInit, Flags
<1> QED BY <1>1, ConsoleInvInit, ConsoleInvStep, FlagsStep, ConsoleInvIsSound, PTL DEF ConsoleSpec
=============================================================================
