------------------------------- MODULE Printf -------------------------------
(***************************************************************************)
(* printf, in the kernel and in libc (lib/libc/__printf.c), and snprintf   *)
(* (snprintf.c).  A format is sent a character at a time, each character   *)
(* any one the format might have next; an argument is any value.  Text is  *)
(* a sequence of one-character strings.  A long has LongBits bits, as an   *)
(* int has.                                                                *)
(***************************************************************************)
EXTENDS Integers, FiniteSetsExt, SequencesExt

CONSTANTS LongBits,
          Chars,           \* characters a format is made of
          Numbers,         \* integer arguments, as bit patterns
          Strings,         \* string arguments: text, or NULLSTR
          BufLens,         \* buffer lengths handed to snprintf
          MaxFormat, MaxPrinted,   \* bounds: characters of a format; printed
          MaxWidth         \* bound: field widths

Word == 2^LongBits
NULLSTR == << "NULL" >>
Digits == << "0", "1", "2", "3", "4", "5", "6", "7", "8", "9", "a", "b", "c", "d", "e", "f" >>
DigitOf(n) == Digits[n + 1]
ValueOf == [c \in {Digits[i] : i \in 1..10} |-> (CHOOSE i \in 1..10 : Digits[i] = c) - 1]
Modifiers == {"#", "-", "q", "l"} \cup DOMAIN ValueOf
Integers_ == {"d", "o", "u", "p", "x"}
NumberBufSize == (LongBits \div 3) + 2

ASSUME PrintfConstants ==
    /\ LongBits \in Nat \ {0} /\ Numbers \subseteq 0..(Word - 1) /\ BufLens \subseteq Nat

VARIABLES
    pf,          \* in_pct, spacing, rightspc, fillchar, altformat
    charcount, text,     \* characters counted; history: characters sent
    snp,         \* the buffer of snprintf: buf, len as passed, bufpos
    field,       \* history: the modifiers of this field so far
    expected,    \* history: what the format and its arguments call for
    sent, over   \* characters of the format so far; the format has ended

pfVars == <<pf, charcount, text, snp, field, expected, sent, over>>

(* __pf_endfield.                                                          *)
EndField == [in_pct |-> FALSE, spacing |-> 0, rightspc |-> FALSE, fillchar |-> " ",
             altformat |-> FALSE]

PrintfInit ==
    /\ pf = EndField /\ charcount = 0 /\ text = << >> /\ field = << >> /\ expected = << >>
    /\ \E n \in BufLens : snp = [buf |-> [i \in 0..(n - 1) |-> "?"], len |-> n, bufpos |-> 0]
    /\ sent = 0 /\ over = FALSE

-----------------------------------------------------------------------------
(* Fault: the place for the terminator is used too.                        *)
SnprintfSendFull(s, c) ==
    IF s.bufpos < s.len THEN [s EXCEPT !.buf[s.bufpos] = c, !.bufpos = @ + 1] ELSE s

(* __snprintf_send of a character; snp.buflen is one less than the length. *)
SnprintfSend(s, c) ==
    IF s.bufpos < s.len - 1 THEN [s EXCEPT !.buf[s.bufpos] = c, !.bufpos = @ + 1] ELSE s

(* __pf_print.                                                             *)
Sends(txt) ==
    /\ text' = text \o txt /\ charcount' = charcount + Len(txt)
    /\ snp' = FoldLeft(SnprintfSend, snp, txt)

Fill(n) == [i \in 1..n |-> pf.fillchar]

(* Fault: zeros go before the sign.                                        *)
PrintStuffPadded(prefix, stuff) ==
    LET len == Len(prefix) + Len(stuff)
        spc == IF pf.spacing > len THEN pf.spacing - len ELSE 0
    IN (IF ~ pf.rightspc THEN Fill(spc) ELSE << >>) \o prefix \o stuff
       \o (IF pf.rightspc THEN Fill(spc) ELSE << >>)

(* __pf_printstuff: spaces, prefixes, zeros, the text itself, padding on   *)
(* the right.                                                              *)
PrintStuff(prefix, stuff) ==
    LET len == Len(prefix) + Len(stuff)
        spc == IF pf.spacing > len THEN pf.spacing - len ELSE 0
    IN (IF ~ pf.rightspc /\ pf.fillchar # "0" THEN Fill(spc) ELSE << >>)
       \o prefix
       \o (IF ~ pf.rightspc /\ pf.fillchar = "0" THEN Fill(spc) ELSE << >>)
       \o stuff
       \o (IF pf.rightspc THEN Fill(spc) ELSE << >>)

(* __pf_getnum: the value of a signed argument, negated with its sign      *)
(* taken off; the most negative number negates to itself.                  *)
Negative(ch, arg) == ch = "d" /\ arg >= Word \div 2
GetNum(ch, arg) == IF Negative(ch, arg) THEN (Word - arg) % Word ELSE arg

(* __pf_setbase.                                                           *)
SetBase(ch) == CASE ch \in {"d", "u"} -> 10 [] ch \in {"x", "p"} -> 16 [] ch = "o" -> 8
BasePrefix(ch) ==
    IF ~ (pf.altformat \/ ch = "p") THEN << >>
    ELSE CASE SetBase(ch) = 16 -> << "0", "x" >> [] SetBase(ch) = 8 -> << "0" >>
           [] OTHER -> << >>

(* The loop of __pf_printnum, from the right of its buffer: the digits,    *)
(* at least one.  With the NUL there is room for NumberBufSize - 1.        *)
PrintNum(num, base) ==
    LET loop[k \in 0..(NumberBufSize - 1)] ==
            IF k = 0 THEN [xnum |-> num, x |-> << >>, more |-> TRUE]
            ELSE LET p == loop[k - 1]
                 IN IF ~ p.more THEN p
                    ELSE [xnum |-> p.xnum \div base, x |-> <<DigitOf(p.xnum % base)>> \o p.x,
                          more |-> p.xnum \div base > 0]
    IN loop[NumberBufSize - 1].x

-----------------------------------------------------------------------------
(* What the manual page calls for: the value in its base without leading   *)
(* zeros, the sign and the C prefix, in a field as wide as the number in   *)
(* the modifiers.                                                          *)
Numeral(v, base) ==
    LET k == Min({n \in 1..((LongBits \div 3) + 1) : base^n > v})
    IN [i \in 1..k |-> DigitOf((v \div base^(k - i)) % base)]
Figures == SelectSeq(field, LAMBDA c : c \in DOMAIN ValueOf)
FieldWidth == FoldLeft(LAMBDA n, c : (n * 10) + ValueOf[c], 0, Figures)
Has(c) == \E i \in DOMAIN field : field[i] = c
InField(prefix, body) ==
    LET zero == Figures # << >> /\ Figures[1] = "0"
        pad == [i \in 1..(FieldWidth - Len(prefix) - Len(body)) |-> IF zero THEN "0" ELSE " "]
    IN IF Has("-") THEN prefix \o body \o pad
       ELSE IF zero THEN prefix \o pad \o body ELSE pad \o prefix \o body
IntegerField(ch, arg) ==
    LET v == IF ch = "d" /\ arg >= Word \div 2 THEN arg - Word ELSE arg
        sign == IF v < 0 THEN << "-" >> ELSE << >>
        alt == Has("#") \/ ch = "p"
        pre == IF ~ alt \/ ch \in {"d", "u"} THEN << >> ELSE IF ch = "o" THEN << "0" >> ELSE << "0", "x" >>
    IN InField(sign \o pre, Numeral(IF v < 0 THEN -v ELSE v, SetBase(ch)))

-----------------------------------------------------------------------------
(* __pf_send of one character of the format.                               *)
Next1 == ~ over /\ sent < MaxFormat /\ Len(text) < MaxPrinted /\ sent' = sent + 1 /\ UNCHANGED over
Ends(want) == pf' = EndField /\ field' = << >> /\ expected' = expected \o want

Verbatim(ch) ==
    /\ Next1 /\ ~ pf.in_pct /\ ch # "%" /\ Sends(<<ch>>)
    /\ expected' = Append(expected, ch) /\ UNCHANGED <<pf, field>>

StartFormat ==
    /\ Next1 /\ ~ pf.in_pct /\ pf' = [pf EXCEPT !.in_pct = TRUE]
    /\ UNCHANGED <<charcount, text, snp, field, expected>>

(* __pf_modifier; l and q change nothing where a long is an int.           *)
Modifier(ch) ==
    /\ Next1 /\ pf.in_pct /\ ch \in Modifiers
    /\ pf' = CASE ch = "#" -> [pf EXCEPT !.altformat = TRUE]
               [] ch = "-" -> [pf EXCEPT !.rightspc = TRUE]
               [] ch \in {"l", "q"} -> pf
               [] ch = "0" /\ pf.spacing = 0 -> [pf EXCEPT !.fillchar = "0"]
               [] OTHER -> [pf EXCEPT !.spacing = (@ * 10) + ValueOf[ch]]
    /\ pf'.spacing <= MaxWidth
    /\ field' = Append(field, ch) /\ UNCHANGED <<charcount, text, snp, expected>>

IntegerType(ch) ==
    /\ Next1 /\ pf.in_pct /\ ch \in Integers_
    /\ \E arg \in Numbers :
          /\ Sends(PrintStuff((IF Negative(ch, arg) THEN << "-" >> ELSE << >>) \o BasePrefix(ch),
                              PrintNum(GetNum(ch, arg), SetBase(ch))))
          /\ Ends(IntegerField(ch, arg))

StringType ==
    /\ Next1 /\ pf.in_pct
    /\ \E arg \in Strings :
          LET str == IF arg = NULLSTR THEN << "(", "n", "u", "l", "l", ")" >> ELSE arg
          IN Sends(PrintStuff(<< >>, str)) /\ Ends(InField(<< >>, str))

(* %% and illegal characters, which are printed like it, and %c, here of   *)
(* the character "A" and of 0, which is the end of the string it is put in.*)
OtherType(ch) ==
    /\ Next1 /\ pf.in_pct /\ ch \notin Modifiers \cup Integers_ \cup {"s"}
    /\ \E x \in IF ch = "c" THEN {<< "A" >>, << >>} ELSE {<<ch>>} :
          Sends(PrintStuff(<< >>, x)) /\ Ends(InField(<< >>, x))

(* The end of vsnprintf.                                                   *)
Terminate ==
    /\ ~ over /\ over' = TRUE
    /\ snp' = IF snp.len > 0 THEN [snp EXCEPT !.buf[snp.bufpos] = "NUL"] ELSE snp
    /\ UNCHANGED <<pf, charcount, text, field, expected, sent>>

PrintfNext ==
    \/ \E ch \in Chars : \/ Verbatim(ch) \/ Modifier(ch) \/ IntegerType(ch) \/ OtherType(ch)
                         \/ ch = "%" /\ StartFormat
                         \/ ch = "s" /\ StringType
    \/ Terminate

-----------------------------------------------------------------------------
(* printf prints what its format and arguments call for, whatever the      *)
(* modifiers and their order, for every value, the most negative one too,  *)
(* and counts it; every number fits __pf_printnum's buffer; and snprintf   *)
(* keeps as much as fits, ended by a NUL within the buffer.                *)
PrintfExact ==
    /\ text = expected /\ charcount = Len(text)
    /\ LET kept == Min({Len(text), IF snp.len = 0 THEN 0 ELSE snp.len - 1})
       IN /\ DOMAIN snp.buf = 0..(snp.len - 1) /\ snp.bufpos = kept
          /\ \A i \in 0..(kept - 1) : snp.buf[i] = text[i + 1]
          /\ over /\ snp.len > 0 => snp.buf[kept] = "NUL"
=============================================================================
