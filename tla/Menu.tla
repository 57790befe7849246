------------------------------- MODULE Menu --------------------------------
(***************************************************************************)
(* The kernel menu (main/menu.c): the line editor kgets (lib/kgets.c), the *)
(* division of a line into commands and words by strtok_r, which writes    *)
(* NULs into the line and leaves pointers into it, dispatch, and the       *)
(* program thread that reads its name through those pointers while the     *)
(* menu waits for it.                                                      *)
(*                                                                         *)
(* A command name is one letter: "p" runs a program, "s" the shell, "u"    *)
(* unmounts, "b" sets the boot file system, "q" quits, "o" is any command  *)
(* that just returns; other letters are no command.                        *)
(* The line of the boot loader is put into the same buffer as typed ones.  *)
(***************************************************************************)
EXTENDS Integers, Sequences, FiniteSetsExt, SequencesExt

CONSTANTS LineSize,        \* size of buf
          MAXMENUARGS,
          Letters,         \* printable characters typed, " " and ";" among them
          BootLines,       \* lines the boot loader may pass
          MaxKeys          \* bound: keys pressed

NUL == "NUL"
Control == {"BS", "^C", "^R", "^U", "^W", "CR", "other"}
Seps == {" ", "\t"}

ASSUME MenuConstants ==
    /\ LineSize \in Nat \ {0} /\ MAXMENUARGS \in Nat \ {0} /\ MaxKeys \in Nat
    /\ Letters \cap (Control \cup {NUL, "#"}) = {}
    /\ \A l \in BootLines : Len(l) < LineSize /\ \A i \in DOMAIN l : l[i] \notin {NUL, "#"}

VARIABLES
    menuAt,        \* "kgets", "commands", "wait", "panicked", "off"
    buf, pos,      \* the line, and kgets's position in it
    context,       \* menu_execute's place in the line; -1 is NULL
    isargs,        \* the line came from the boot loader
    screen,        \* the terminal's current line, without the prompt
    line, ran,     \* history: the line entered; its commands run so far
    menuProg,          \* the program thread, or the empty sequence
    misread,       \* history: it read something other than its name
    keys

menuVars == <<menuAt, buf, pos, context, isargs, screen, line, ran, menuProg, misread, keys>>

NULLP == -1
Cells == 0..(LineSize - 1)

(* The C string at a place of the buffer b.                                *)
CString(b, at) ==
    LET end == Min({i \in Cells : i >= at /\ b[i] = NUL})
    IN [i \in 1..(end - at) |-> b[at + i - 1]]

MenuInit ==
    /\ menuAt = "commands" /\ isargs = TRUE /\ line \in BootLines
    /\ buf = [i \in Cells |-> IF i < Len(line) THEN line[i + 1]
                              ELSE IF i = Len(line) THEN NUL ELSE "#"]
    /\ pos = 0 /\ context = 0 /\ screen = <<>> /\ ran = <<>> /\ menuProg = <<>>
    /\ misread = FALSE /\ keys = 0

-----------------------------------------------------------------------------
(* kgets.                                                                  *)
BackTo(n) == pos' = n /\ screen' = SubSeq(screen, 1, Len(screen) - (pos - n))

(* ^W: back over the spaces, then over the word before them.               *)
WordStart ==
    LET last == Max({0} \cup {i \in 1..pos : buf[i - 1] # " "})
    IN Max({0} \cup {i \in 1..last : buf[i - 1] = " "})

Return(n) ==
    /\ buf' = [buf EXCEPT ![n] = NUL] /\ line' = CString(buf', 0)
    /\ context' = 0 /\ ran' = <<>> /\ menuAt' = "commands"

(* Fault: a character is kept past the end, over the last one.             *)
TypeOver(ch) ==
    /\ screen' = Append(screen, ch)
    /\ LET at == Min({pos, LineSize - 2}) IN buf' = [buf EXCEPT ![at] = ch] /\ pos' = at + 1
    /\ UNCHANGED <<line, context, ran, menuAt>>

(* A printable character, while there is room; otherwise a beep.           *)
TypeKey(ch) ==
    /\ IF pos < LineSize - 1
       THEN /\ screen' = Append(screen, ch)
            /\ buf' = [buf EXCEPT ![pos] = ch] /\ pos' = pos + 1
       ELSE UNCHANGED <<screen, buf, pos>>
    /\ UNCHANGED <<line, context, ran, menuAt>>

Edit(key) ==
    /\ \/ key = "BS" /\ BackTo(IF pos > 0 THEN pos - 1 ELSE 0) /\ UNCHANGED buf
       \/ key = "^U" /\ BackTo(0) /\ UNCHANGED buf
       \/ key = "^W" /\ BackTo(WordStart) /\ UNCHANGED buf
       \/ /\ key = "^R"
          /\ buf' = [buf EXCEPT ![pos] = NUL] /\ screen' = CString(buf', 0) /\ UNCHANGED pos
       \/ key = "other" /\ UNCHANGED <<buf, pos, screen>>
    /\ UNCHANGED <<line, context, ran, menuAt>>

Enter(key) ==
    /\ \/ key = "CR" /\ Return(pos)
       \/ key = "^C" /\ Return(0)
    /\ pos' = 0 /\ screen' = <<>>

Key(ch) ==
    /\ menuAt = "kgets" /\ keys < MaxKeys /\ keys' = keys + 1
    /\ \/ ch \in Letters /\ TypeKey(ch)
       \/ ch \in Control /\ (Edit(ch) \/ Enter(ch))
    /\ UNCHANGED <<isargs, menuProg, misread>>

-----------------------------------------------------------------------------
(* strtok_r on the buffer b from ctx: the head of the next token (NULLP    *)
(* if there is none), the buffer with the token ended, the next context.   *)
(* Fault: the next context skips a character.                              *)
StrtokSkips(b, ctx, seps) ==
    IF ctx = NULLP THEN [head |-> NULLP, b |-> b, ctx |-> NULLP]
    ELSE LET head == Min({i \in Cells : i >= ctx /\ b[i] \notin seps})
             tail == Min({i \in Cells : i >= head /\ b[i] \in seps \cup {NUL}})
         IN IF b[head] = NUL THEN [head |-> NULLP, b |-> b, ctx |-> NULLP]
            ELSE [head |-> head, b |-> [b EXCEPT ![tail] = NUL],
                  ctx |-> IF b[tail] = NUL \/ b[tail + 1] = NUL THEN NULLP ELSE tail + 2]

strtok_r(b, ctx, seps) ==
    IF ctx = NULLP THEN [head |-> NULLP, b |-> b, ctx |-> NULLP]
    ELSE LET head == Min({i \in Cells : i >= ctx /\ b[i] \notin seps})
             tail == Min({i \in Cells : i >= head /\ b[i] \in seps \cup {NUL}})
         IN IF b[head] = NUL THEN [head |-> NULLP, b |-> b, ctx |-> NULLP]
            ELSE [head |-> head, b |-> [b EXCEPT ![tail] = NUL],
                  ctx |-> IF b[tail] = NUL THEN NULLP ELSE tail + 1]

(* The words of the command at a place: cmd_dispatch's loop, which stops   *)
(* with E2BIG at a word too many.                                          *)
LineWords(b, at) ==
    LET after[n \in 0..LineSize] ==
            IF n = 0 THEN [b |-> b, ctx |-> at, args |-> <<>>, big |-> FALSE]
            ELSE LET p == after[n - 1]
                     t == strtok_r(p.b, p.ctx, Seps)
                 IN IF t.head = NULLP THEN [p EXCEPT !.ctx = NULLP]
                    ELSE IF Len(p.args) >= MAXMENUARGS
                         THEN [p EXCEPT !.b = t.b, !.ctx = NULLP, !.big = TRUE]
                         ELSE [p EXCEPT !.b = t.b, !.ctx = t.ctx, !.args = Append(@, t.head)]
    IN after[LineSize]

(* A failed command is reported; for the boot loader's line that is fatal. *)
Failed == menuAt' = (IF isargs THEN "panicked" ELSE "commands") /\ UNCHANGED menuProg
Succeeded == menuAt' = "commands" /\ UNCHANGED menuProg

(* Fault: common_prog does not wait for the thread.                        *)
CommonProgAsync(args, name) ==
    \/ menuAt' = "commands" /\ menuProg' = <<[at |-> args, name |-> name, step |-> "copy"]>>
    \/ Failed

(* common_prog: fork the thread, which may fail, and wait.                 *)
CommonProg(args, name) ==
    \/ menuAt' = "wait" /\ menuProg' = <<[at |-> args, name |-> name, step |-> "copy"]>>
    \/ Failed

Nargs(w) == Len(w.args)

cmd_prog(w) ==
    /\ buf' = w.b
    /\ IF Nargs(w) < 2 THEN Failed ELSE CommonProg(w.args[2], CString(w.b, w.args[2]))

cmd_shell(w) == buf' = w.b /\ IF Nargs(w) # 1 THEN Failed ELSE CommonProg(NULLP, <<"sh">>)

cmd_quit(w) == buf' = w.b /\ menuAt' = "off" /\ UNCHANGED menuProg

(* "Allow (but do not require) colon after device name": it is overwritten *)
(* in the line.                                                            *)
DropColon(b, at) ==
    LET last == at + Len(CString(b, at)) - 1
    IN IF b[last] = ":" THEN [b EXCEPT ![last] = NUL] ELSE b

cmd_unmount(w) ==
    IF Nargs(w) # 2 THEN buf' = w.b /\ Failed
    ELSE buf' = DropColon(w.b, w.args[2]) /\ (Succeeded \/ Failed)
cmd_bootfs(w) ==
    IF Nargs(w) # 2 THEN buf' = w.b /\ Failed
    ELSE buf' = DropColon(w.b, w.args[2]) /\ (Succeeded \/ Failed)

Dispatch(w) ==
    LET cmd == CString(w.b, w.args[1])
    IN IF w.args = <<>> THEN buf' = w.b /\ Succeeded
       ELSE IF w.big THEN buf' = w.b /\ Failed
       ELSE CASE cmd = <<"p">> -> cmd_prog(w)
              [] cmd = <<"s">> -> cmd_shell(w)
              [] cmd = <<"q">> -> cmd_quit(w)
              [] cmd = <<"u">> -> cmd_unmount(w)
              [] cmd = <<"b">> -> cmd_bootfs(w)
              [] cmd = <<"o">> -> buf' = w.b /\ (Succeeded \/ Failed)
              [] OTHER -> buf' = w.b /\ Failed

(* One turn of menu_execute's loop, or its end and the next prompt.        *)
MenuCommand ==
    LET t == strtok_r(buf, context, {";"})
    IN /\ menuAt = "commands" /\ context' = t.ctx
       /\ IF t.head = NULLP
          THEN /\ menuAt' = "kgets" /\ isargs' = FALSE /\ buf' = t.b /\ context' = NULLP
               /\ UNCHANGED <<ran, menuProg>>
          ELSE LET w == LineWords(t.b, t.head)
               IN /\ Dispatch(w) /\ UNCHANGED isargs
                  /\ ran' = Append(ran, [i \in DOMAIN w.args |-> CString(w.b, w.args[i])])
       /\ UNCHANGED <<pos, screen, line, misread, keys>>

(* The wait in common_prog ends when no other thread is left.              *)
MenuWaits ==
    /\ menuAt = "wait" /\ menuProg = <<>> /\ menuAt' = "commands"
    /\ UNCHANGED <<buf, pos, context, isargs, screen, line, ran, menuProg, misread, keys>>

(* What the program thread reads as args[0]; the array is gone once        *)
(* cmd_dispatch has returned.                                              *)
ProgReads(p) ==
    IF menuAt # "wait" THEN <<"#">> ELSE IF p.at = NULLP THEN <<"sh">> ELSE CString(buf, p.at)

(* cmd_progthread copies the name and runs the program, which either takes *)
(* the thread over until it exits, or fails and is reported by its name.   *)
ProgStep ==
    /\ menuProg # <<>> /\ menuAt \notin {"panicked", "off"}
    /\ LET p == menuProg[1]
       IN \/ /\ p.step = "copy" /\ menuProg' = <<[p EXCEPT !.step = "running"]>>
             /\ misread' = (misread \/ ProgReads(p) # p.name)
          \/ p.step = "running" /\ menuProg' = <<>> /\ UNCHANGED misread
          \/ /\ p.step = "running" /\ menuProg' = <<>>
             /\ misread' = (misread \/ ProgReads(p) # p.name)
    /\ UNCHANGED <<menuAt, buf, pos, context, isargs, screen, line, ran, keys>>

MenuNext == (\E ch \in Letters \cup Control : Key(ch)) \/ MenuCommand \/ MenuWaits \/ ProgStep

-----------------------------------------------------------------------------
(* The nonempty pieces of s between separators.                            *)
Pieces(s, seps) ==
    SelectSeq(FoldLeft(LAMBDA acc, c : IF c \in seps THEN Append(acc, <<>>)
                                       ELSE [acc EXCEPT ![Len(acc)] = Append(@, c)],
                       << <<>> >>, s),
              LAMBDA p : p # <<>>)
FirstWords(ws) == SubSeq(ws, 1, Min({Len(ws), MAXMENUARGS}))
Commands(s) == [i \in DOMAIN Pieces(s, {";"}) |-> FirstWords(Pieces(Pieces(s, {";"})[i], Seps))]

(* While a line is edited the terminal shows exactly what kgets holds,     *)
(* whatever control keys are used and however full the buffer is; and the  *)
(* commands run are those of the line, in order and with their words, all  *)
(* of them by the time the next prompt appears: the NULs that strtok_r     *)
(* writes for one command never damage the next.                           *)
MenuRunsLine ==
    /\ menuAt = "kgets" => screen = [i \in 1..pos |-> buf[i - 1]]
    /\ ran = SubSeq(Commands(line), 1, Len(ran))
    /\ menuAt = "kgets" => ran = Commands(line)

(* The program thread reads the name that was typed, both times: its       *)
(* arguments live in the menu's buffers, and the menu waits before it      *)
(* reuses them.                                                            *)
ArgsStable == ~ misread
=============================================================================
