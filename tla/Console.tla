------------------------------ MODULE Console ------------------------------
(***************************************************************************)
(* The console: lib/kernel/console.c, whose lock a thread may take again,  *)
(* and the text screen of devices/vga.c.  A thread writes buffers of       *)
(* characters; an interrupt handler writes without the lock.  Control      *)
(* characters are named; others stand for themselves.                      *)
(***************************************************************************)
EXTENDS Integers, Sequences, FiniteSets

CONSTANTS
  Printer,            \* the threads that write
  Texts,              \* the buffers they write
  COL_CNT, ROW_CNT,   \* the size of the screen
  TabStop,            \* 8 in the code
  MaxWritten,         \* bound: characters written
  NoPrinter

ASSUME ConsoleConstants == COL_CNT > 0 /\ ROW_CNT > 0 /\ TabStop > 0

VARIABLES
  console_lock, console_lock_depth, use_console_lock,
  todo,        \* the characters each thread has yet to write, innermost call last
  cx, cy, fb,  \* the cursor and the rows of the screen
  write_cnt

consoleVars == <<console_lock, console_lock_depth, use_console_lock, todo, cx, cy, fb, write_cnt>>

Blank == [x \in 0..COL_CNT-1 |-> " "]

-----------------------------------------------------------------------------
(* vga.c, on a screen s                                                    *)
clear_row(s, y) == [s EXCEPT !.fb[y] = Blank]
cls(s) == [x |-> 0, y |-> 0, fb |-> [y \in 0..ROW_CNT-1 |-> Blank]]
newline(s) ==
  IF s.y + 1 < ROW_CNT THEN [s EXCEPT !.x = 0, !.y = @ + 1]
  ELSE clear_row([s EXCEPT !.x = 0, !.fb = [y \in 0..ROW_CNT-1 |-> IF y + 1 < ROW_CNT THEN s.fb[y + 1] ELSE s.fb[y]]],
                 ROW_CNT - 1)
Wrapped(s) == IF s.x >= COL_CNT THEN newline(s) ELSE s
vga_putc(s, c) ==
  CASE c = "newline" -> newline(s)
    [] c = "formfeed" -> cls(s)
    [] c = "backspace" -> [s EXCEPT !.x = IF @ > 0 THEN @ - 1 ELSE 0]
    [] c = "return" -> [s EXCEPT !.x = 0]
    [] c = "tab" -> Wrapped([s EXCEPT !.x = ((@ + 1 + TabStop - 1) \div TabStop) * TabStop])
    [] c = "bell" -> s
    [] OTHER -> Wrapped([s EXCEPT !.fb[s.y][s.x] = c, !.x = @ + 1])

-----------------------------------------------------------------------------
(* console.c                                                               *)
acquire_console(t) ==
  IF console_lock = t THEN console_lock_depth' = console_lock_depth + 1 /\ UNCHANGED console_lock
  ELSE console_lock = NoPrinter /\ console_lock' = t /\ UNCHANGED console_lock_depth

release_console(t) ==
  IF console_lock_depth > 0 THEN console_lock_depth' = console_lock_depth - 1 /\ UNCHANGED console_lock
  ELSE console_lock' = NoPrinter /\ UNCHANGED console_lock_depth

putchar_have_lock(c) ==
  /\ write_cnt < MaxWritten /\ write_cnt' = write_cnt + 1
  /\ LET s == vga_putc([x |-> cx, y |-> cy, fb |-> fb], c)
     IN cx' = s.x /\ cy' = s.y /\ fb' = s.fb

(* putbuf begins: at the top, or inside another call of the same thread.   *)
putbuf(t, text) ==
  /\ use_console_lock /\ Len(todo[t]) < 2 /\ write_cnt + Len(text) <= MaxWritten
  /\ acquire_console(t)
  /\ todo' = [todo EXCEPT ![t] = Append(@, text)]
  /\ UNCHANGED <<use_console_lock, cx, cy, fb, write_cnt>>

putchar(t) ==
  LET n == Len(todo[t])
  IN /\ use_console_lock /\ n > 0 /\ todo[t][n] # <<>>
     /\ putchar_have_lock(Head(todo[t][n]))
     /\ todo' = [todo EXCEPT ![t][n] = Tail(@)]
     /\ UNCHANGED <<console_lock, console_lock_depth, use_console_lock>>

putbuf_return(t) ==
  LET n == Len(todo[t])
  IN /\ use_console_lock /\ n > 0 /\ todo[t][n] = <<>>
     /\ release_console(t)
     /\ todo' = [todo EXCEPT ![t] = SubSeq(@, 1, n - 1)]
     /\ UNCHANGED <<use_console_lock, cx, cy, fb, write_cnt>>

(* A panic gives up the lock: interrupts are off and stay so, and the one  *)
(* thread that runs writes as a handler does.                              *)
console_panic ==
  /\ use_console_lock' = FALSE
  /\ UNCHANGED <<console_lock, console_lock_depth, todo, cx, cy, fb, write_cnt>>

(* An interrupt handler writes a character.                                *)
putchar_intr(c) ==
  /\ putchar_have_lock(c)
  /\ UNCHANGED <<console_lock, console_lock_depth, use_console_lock, todo>>

ConsoleInit ==
  /\ console_lock = NoPrinter /\ console_lock_depth = 0 /\ use_console_lock = TRUE
  /\ todo = [t \in Printer |-> <<>>]
  /\ cx = 0 /\ cy = 0 /\ fb = [y \in 0..ROW_CNT-1 |-> Blank] /\ write_cnt = 0 

ConsoleNext ==
  \/ \E t \in Printer : (\E text \in Texts : putbuf(t, text)) \/ putchar(t) \/ putbuf_return(t)
  \/ console_panic
  \/ \E c \in {"!", "newline"} : putchar_intr(c)

ConsoleSpec == ConsoleInit /\ [][ConsoleNext]_consoleVars

-----------------------------------------------------------------------------
(* The cursor is always on the screen, so that no write goes past the      *)
(* frame buffer; the lock is held exactly as long as its thread has calls  *)
(* to finish, nested ones included; and two threads never both have begun  *)
(* to write.                                                               *)
ConsoleSerial ==
  /\ cx \in 0..COL_CNT-1 /\ cy \in 0..ROW_CNT-1
  /\ \A t \in Printer : todo[t] # <<>> <=> console_lock = t
  /\ console_lock # NoPrinter => console_lock_depth = Len(todo[console_lock]) - 1
  /\ console_lock = NoPrinter => console_lock_depth = 0
=============================================================================
