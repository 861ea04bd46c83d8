------------------------------- MODULE Stdio -------------------------------
(***************************************************************************)
(* The formatting of lib/stdio.c into a buffer: vsnprintf, __vprintf,      *)
(* parse_conversion, format_integer and format_string.  A format is a      *)
(* sequence of literal characters and conversions; a conversion's options  *)
(* are a record, its width and precision already numbers.  An int has      *)
(* TypeBits bits, so that the wrapping of every type is met.               *)
(***************************************************************************)
EXTENDS Integers, Sequences, FiniteSets, SequencesExt, FiniteSetsExt

CONSTANTS
  TypeBits,      \* the width of the types CHAR, SHORT, INT
  Arguments,     \* integers conversions are given
  Strings,       \* strings conversions are given, with their terminator
  Flags,         \* sets of flags formats have
  Widths, Precisions,
  BufSizes,
  MaxItems       \* bound: items of a format

VARIABLES
  buf_size, buffer, length,     \* vsnprintf_aux: *p appended, length
  full,          \* all that was output
  last           \* the last conversion, and its text

stdioVars == <<buf_size, buffer, length, full, last>>

base_d == [base |-> 10, x |-> "", group |-> 3]
base_o == [base |-> 8, x |-> "", group |-> 3]
base_x == [base |-> 16, x |-> "x", group |-> 4]
base_X == [base |-> 16, x |-> "X", group |-> 4]
DigitChars(b) ==
  IF b = base_X
  THEN <<"0", "1", "2", "3", "4", "5", "6", "7", "8", "9", "A", "B", "C", "D", "E", "F">>
  ELSE <<"0", "1", "2", "3", "4", "5", "6", "7", "8", "9", "a", "b", "c", "d", "e", "f">>

-----------------------------------------------------------------------------
(* parse_conversion; NoPrecision is no "." in the format, and a width or   *)
(* precision below 0 comes from an argument.                               *)
NoPrecision == -1
parse_conversion(f) ==
  LET minus == IF "-" \in f.flags THEN f.flags \ {"0"} ELSE f.flags
      plus == IF "+" \in minus THEN minus \ {" "} ELSE minus
      wide == IF f.width < 0 THEN plus \cup {"-"} ELSE plus
      precision == IF f.precision < 0 THEN NoPrecision ELSE f.precision
  IN [flags |-> IF precision >= 0 THEN wide \ {"0"} ELSE wide,
      width |-> IF f.width < 0 THEN -f.width ELSE f.width,
      precision |-> precision, type |-> f.type]

output_dup(ch, cnt) == [i \in 1..cnt |-> ch]

(* Digits from the last to the first, with the commas of a group.          *)
RECURSIVE Accumulate(_, _, _, _)
Accumulate(value, b, c, digit_cnt) ==
  IF value = 0 THEN <<>>
  ELSE (IF "'" \in c.flags /\ digit_cnt > 0 /\ digit_cnt % b.group = 0 THEN <<",">> ELSE <<>>)
       \o <<DigitChars(b)[(value % b.base) + 1]>>
       \o Accumulate(value \div b.base, b, c, digit_cnt + 1)

format_integer(value, is_signed, negative, b, c) ==
  LET sign == IF ~is_signed THEN <<>>
              ELSE IF negative THEN <<"-">>
              ELSE IF "+" \in c.flags THEN <<"+">>
              ELSE IF " " \in c.flags THEN <<" ">> ELSE <<>>
      x == IF "#" \in c.flags /\ value # 0 /\ b.x # "" THEN <<"0", b.x>> ELSE <<>>
      digits == Accumulate(value, b, c, 0)
      precision == IF c.precision < 0 THEN 1 ELSE c.precision
      zeros == output_dup("0", precision - Len(digits))
      buf == digits \o zeros
      cp == IF "#" \in c.flags /\ b.base = 8 /\ (buf = <<>> \/ Last(buf) # "0")
            THEN Append(buf, "0") ELSE buf
      room == c.width - Len(cp) - Len(x) - Len(sign)
      pad_cnt == IF room < 0 THEN 0 ELSE room
      If(cond, ch) == IF cond THEN output_dup(ch, pad_cnt) ELSE <<>>
  IN If(c.flags \cap {"-", "0"} = {}, " ") \o sign \o x \o If("0" \in c.flags, "0")
       \o Reverse(cp) \o If("-" \in c.flags, " ")

format_string(s, len, c) ==
  LET pad == IF c.width > len THEN output_dup(" ", c.width - len) ELSE <<>>
  IN (IF "-" \in c.flags THEN <<>> ELSE pad) \o SubSeq(s, 1, len)
       \o (IF "-" \in c.flags THEN pad ELSE <<>>)

(* What va_arg and the casts make of an argument.                          *)
AsUnsigned(n, type) == n % 2^TypeBits[type]
AsSigned(n, type) ==
  LET u == AsUnsigned(n, type) IN IF 2 * u >= 2^TypeBits[type] THEN u - 2^TypeBits[type] ELSE u

Convert(f, spec, n, s) ==
  LET c == parse_conversion(f)
      value == AsSigned(n, c.type)
      Unsigned(b) == format_integer(AsUnsigned(n, c.type), FALSE, FALSE, b, c)
      len == Len(s)
  IN CASE spec = "d" -> format_integer(IF value < 0 THEN -value ELSE value, TRUE, value < 0, base_d, c)
       [] spec = "o" -> Unsigned(base_o)
       [] spec = "u" -> Unsigned(base_d)
       [] spec = "x" -> Unsigned(base_x)
       [] spec = "X" -> Unsigned(base_X)
       [] spec = "p" -> format_integer(AsUnsigned(n, "INT"), FALSE, FALSE, base_x, [c EXCEPT !.flags = {"#"}])
       [] spec = "c" -> format_string(<<"c">>, 1, c)
       [] spec = "s" -> format_string(s, IF c.precision < 0 THEN len ELSE Min({len, c.precision}), c)
       [] OTHER -> <<"no conversion">>

-----------------------------------------------------------------------------
(* vsnprintf_helper, for each character of text.                           *)
Output(text) ==
  LET max_length == IF buf_size > 0 THEN buf_size - 1 ELSE 0
      fits == IF max_length > length THEN Min({max_length - length, Len(text)}) ELSE 0
  IN /\ buffer' = buffer \o SubSeq(text, 1, fits)
     /\ length' = length + Len(text) /\ full' = full \o text
     /\ UNCHANGED buf_size

NoConversion == [spec |-> "", f |-> <<>>, n |-> 0, s |-> <<>>, text |-> <<>>]

Literal == /\ Len(full) < MaxItems /\ Output(<<"l">>) /\ UNCHANGED last
ConvertInteger ==
  \E flags \in Flags, width \in Widths, precision \in Precisions, type \in DOMAIN TypeBits,
     spec \in {"d", "o", "u", "x", "X", "p"}, n \in Arguments :
    LET f == [flags |-> flags, width |-> width, precision |-> precision, type |-> type]
        text == Convert(f, spec, n, <<>>)
    IN /\ last = NoConversion
       /\ Output(text) /\ last' = [spec |-> spec, f |-> f, n |-> n, s |-> <<>>, text |-> text]
ConvertString ==
  \E flags \in Flags, width \in Widths, precision \in Precisions, spec \in {"c", "s", "f"}, s \in Strings :
    LET f == [flags |-> flags, width |-> width, precision |-> precision, type |-> "INT"]
        text == Convert(f, spec, 0, s)
    IN /\ last = NoConversion
       /\ Output(text) /\ last' = [spec |-> spec, f |-> f, n |-> 0, s |-> s, text |-> text]

StdioInit == buf_size \in BufSizes /\ buffer = <<>> /\ length = 0 /\ full = <<>> /\ last = NoConversion
StdioNext == Literal \/ ConvertInteger \/ ConvertString

-----------------------------------------------------------------------------
Bare(text) == SelectSeq(text, LAMBDA ch : ch \notin {" ", ",", "+", "-"})
DigitValue(ch) ==
  CHOOSE d \in 0..15 : ch \in {DigitChars(base_x)[d + 1], DigitChars(base_X)[d + 1]}
ValueOf(text, base) ==
  LET digits == SelectSeq(text, LAMBDA ch : ch \notin {"x", "X"})
  IN FoldLeft(LAMBDA sum, ch : sum * base + DigitValue(ch), 0, digits)
BaseOf(spec) == CASE spec \in {"d", "u"} -> 10 [] spec = "o" -> 8 [] OTHER -> 16

(* vsnprintf never stores more than its buffer holds, keeps the front of   *)
(* the text and returns the length of all of it.  An integer's text reads  *)
(* back as the argument, in its type, has its sign, and is padded up to    *)
(* the width and not past it; a negative width with the 0 flag is padded   *)
(* on both sides by format_integer, and left out here.                     *)
FormatsExact ==
  /\ length = Len(full) /\ buffer = SubSeq(full, 1, Len(buffer))
  /\ Len(buffer) = Min({length, IF buf_size = 0 THEN 0 ELSE buf_size - 1})
  /\ last.spec \in {"d", "o", "u", "x", "X", "p"} =>
       LET type == IF last.spec = "p" THEN "INT" ELSE last.f.type
           value == IF last.spec = "d" THEN AsSigned(last.n, type) ELSE AsUnsigned(last.n, type)
           twice == last.f.width < 0 /\ "0" \in last.f.flags \ (IF last.f.precision >= 0 THEN {"0"} ELSE {})
           width == IF last.f.width < 0 THEN -last.f.width ELSE last.f.width
           spaces == Len(last.text) - Len(SelectSeq(last.text, LAMBDA ch : ch # " "))
           left == last.spec # "p" /\ (last.f.width < 0 \/ "-" \in last.f.flags)
       IN /\ ValueOf(Bare(last.text), BaseOf(last.spec)) = (IF value < 0 THEN -value ELSE value)
          /\ "-" \in ToSet(last.text) <=> value < 0
          /\ Len(last.text) >= width
          /\ Len(last.text) > width /\ ~twice => spaces <= 1
          /\ spaces > 1 => IF left THEN Last(last.text) = " " ELSE last.text[1] = " "
          /\ (last.f.precision > 0 /\ "'" \notin last.f.flags) => Len(Bare(last.text)) >= last.f.precision
  /\ last.spec = "s" =>
       LET kept == IF last.f.precision < 0 THEN last.s ELSE SubSeq(last.s, 1, Min({Len(last.s), last.f.precision}))
       IN SelectSeq(last.text, LAMBDA ch : ch # " ") = kept
=============================================================================
