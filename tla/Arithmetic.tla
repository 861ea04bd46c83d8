---------------------------- MODULE Arithmetic -----------------------------
(***************************************************************************)
(* The division of double words in lib/arithmetic.c, where the hardware    *)
(* only divides a double word by a word and traps when the quotient does   *)
(* not fit one.  Words have W bits (32 in the code), W a power of 2.       *)
(***************************************************************************)
EXTENDS Integers

CONSTANT W

VARIABLES
  acc,           \* a double word: the last result, and the next dividend
  trapped        \* divl raised a divide error

arithVars == <<acc, trapped>>

Trap == -1
WordSize == 2^W
Wide == 2^(2 * W)
Unsigned == 0..(Wide - 1)

-----------------------------------------------------------------------------
(* divl, the instruction; nlz halves the width it looks at, step by step.  *)
divl(n, d) == IF n \div d >= WordSize THEN Trap ELSE n \div d

RECURSIVE nlz(_, _)
nlz(x, step) ==
  IF step = 0 THEN 0
  ELSE IF x <= 2^(W - step) - 1 THEN step + nlz(x * 2^step, step \div 2) ELSE nlz(x, step \div 2)

(* udiv64; the arithmetic of double words wraps.                           *)
udiv64(n, d) ==
  LET n1 == n \div WordSize
      n0 == n % WordSize
      s == nlz(d \div WordSize, W \div 2)
      top == divl(n \div 2, ((d * 2^s) % Wide) \div WordSize)
      q == top \div 2^(W - 1 - s)
      low == divl(WordSize * (n1 % d) + n0, d)
  IN IF d \div WordSize = 0
     THEN IF low = Trap THEN Trap ELSE low + WordSize * (n1 \div d)
     ELSE IF n < d THEN 0
     ELSE IF top = Trap THEN Trap
     ELSE IF (n - (q - 1) * d) % Wide < d THEN q - 1 ELSE q

(* umod64 and smod64 return a word, not a double word.                     *)
umod64(n, d) == ((n - d * udiv64(n, d)) % Wide) % WordSize

Abs(x) == IF x >= 0 THEN x ELSE -x
Signed(x, size) == IF x % size >= size \div 2 THEN (x % size) - size ELSE x % size
sdiv64(n, d) ==
  LET q_abs == udiv64(Abs(n) % Wide, Abs(d) % Wide)
  IN Signed(IF (n < 0) = (d < 0) THEN q_abs ELSE -q_abs, Wide)
smod64(n, d) == Signed(n - d * sdiv64(n, d), WordSize)

-----------------------------------------------------------------------------
Call(result) == trapped' = (result = Trap) /\ acc' = IF result = Trap THEN acc ELSE result % Wide

__udivdi3(d) == Call(udiv64(acc, d))
__umoddi3(d) == Call(umod64(acc, d))
__divdi3(d) == Call(sdiv64(Signed(acc, Wide), Signed(d, Wide)) % Wide)
__moddi3(d) == Call(smod64(Signed(acc, Wide), Signed(d, Wide)) % Wide)

ArithInit == acc \in Unsigned /\ trapped = FALSE
ArithNext ==
  \E d \in {1, 3, WordSize - 1, WordSize, WordSize + 3, Wide - 1} :
    __udivdi3(d) \/ __umoddi3(d) \/ __divdi3(d) \/ __moddi3(d)

-----------------------------------------------------------------------------
(* The quotient is the floor for unsigned and truncates towards zero for   *)
(* signed operands, the least one too; the remainder matches it whenever   *)
(* it fits the word it is returned in; the instruction never traps.        *)
Truncated(n, d) == LET q == Abs(n) \div Abs(d) IN IF (n < 0) = (d < 0) THEN q ELSE -q
DivisionExact ==
  /\ ~trapped
  /\ \A d \in Unsigned \ {0} :
       LET n == Signed(acc, Wide)
           e == Signed(d, Wide)
           r == n - e * Truncated(n, e)
       IN /\ udiv64(acc, d) = acc \div d
          /\ acc % d < WordSize => umod64(acc, d) = acc % d
          /\ sdiv64(n, e) = Signed(Truncated(n, e), Wide)
          /\ r \in (-(WordSize \div 2))..(WordSize \div 2 - 1) => smod64(n, e) = r
=============================================================================
