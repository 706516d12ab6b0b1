------------------------------- MODULE Terminal -------------------------------
(* The virtual terminals: the keyboard and mouse interrupts fill the buffers of *)
(* the active terminal, its input thread edits lines or forwards raw codes, and *)
(* a program reads lines or codes, with or without a timeout. Alt+Fn switches   *)
(* the active terminal. Buffers are bounded queues (CircularBuffer).            *)
EXTENDS Integers, Sequences, SequencesExt

CONSTANTS Terminals,        \* 0 .. _terminals_count - 1
          Keys,             \* the scan codes typed: <<key, released>>
          Reads,            \* the reads programs make: <<max, ms>>
          Raw,              \* whether programs leave the canonical mode
          KeyboardSize, InputSize, CanonicalSize, RawSize,
          MaxKeys, MaxReads \* bounds: interrupts taken, reads made

VARIABLES term, active_terminal, thread, reader, handled, results, dropped, keys, panic

vars == <<term, active_terminal, thread, reader, handled, results, dropped, keys, panic>>

None == "none"
Newline == "newline"
TIMEOUT == "timeout"
MouseLeft == "mouse"

Letters == {"a", "b"}

pressed_codes(key) == <<key, FALSE>>

released_codes(key) == <<key, TRUE>>

qwertz(key) == CASE key \in Letters -> key
                 [] key = "enter"   -> Newline
                 [] OTHER           -> None

shifted_qwertz(key) == CASE key = "a" -> "A"
                         [] key = "b" -> "B"
                         [] key = "enter" -> Newline
                         [] OTHER -> None

raw_key_to_keycode(code) == IF code[2] THEN released_codes(code[1]) ELSE pressed_codes(code[1])

Pushed(queue, size, x) == IF Len(queue) = size THEN queue ELSE Append(queue, x)

(* init_terminals, then finalize: every terminal has its input thread           *)
Init ==
    /\ term = [t \in Terminals |-> [keyboard |-> <<>>, mouse_buffer |-> <<>>, input |-> <<>>,
                                    canonical_buffer |-> <<>>, raw |-> <<>>,
                                    canonical |-> TRUE, mouse |-> FALSE, active |-> t = 0]]
    /\ active_terminal = 0
    /\ thread = [t \in Terminals |-> [pc |-> "block", shift |-> FALSE, alt |-> FALSE, to |-> t]]
    /\ reader = [t \in Terminals |-> [pc |-> "idle", buffer |-> <<>>, max |-> 0, ms |-> 0]]
    /\ handled = [t \in Terminals |-> <<>>]
    /\ results = [t \in Terminals |-> <<>>]
    /\ dropped = [t \in Terminals |-> FALSE]
    /\ keys = 0
    /\ panic = FALSE

-------------------------------------------------------------------------------
(* Interrupts. unblock_process_hint makes the thread READY unless it runs: it   *)
(* matters only to a thread that is blocked.                                    *)
Hint(t) == thread' = IF thread[t].pc = "blocked" THEN [thread EXCEPT ![t].pc = "keys"] ELSE thread

send_input(t, code) ==
    LET filled == Pushed(term[t].keyboard, KeyboardSize, code)
    IN /\ term' = [term EXCEPT ![t].keyboard = filled]
       /\ panic' = (Len(filled) = KeyboardSize)
       /\ Hint(t)

keyboard_handler(code) ==
    /\ ~panic /\ keys < MaxKeys
    /\ keys' = keys + 1
    /\ send_input(active_terminal, code)
    /\ UNCHANGED <<active_terminal, reader, handled, results, dropped>>

send_mouse_input(t, key) ==
    LET filled == Pushed(term[t].mouse_buffer, KeyboardSize, key)
    IN /\ term' = [term EXCEPT ![t].mouse_buffer = filled]
       /\ panic' = (Len(filled) = KeyboardSize)
       /\ Hint(t)

mouse_handler ==
    /\ ~panic /\ keys < MaxKeys /\ Raw
    /\ keys' = keys + 1
    /\ send_mouse_input(active_terminal, MouseLeft)
    /\ UNCHANGED <<active_terminal, reader, handled, results, dropped>>

-------------------------------------------------------------------------------
(* The input thread of terminal t                                               *)
Goto(t, pc) == thread' = [thread EXCEPT ![t].pc = pc]

block_process(t) ==
    /\ ~panic /\ thread[t].pc = "block"
    /\ Goto(t, "blocked")
    /\ UNCHANGED <<term, active_terminal, reader, handled, results, dropped, keys, panic>>

(* A key released in canonical mode                                             *)
Target(key) == CASE key = "f1" -> 0 [] key = "f2" -> 1 [] key = "f3" -> 2

released(t, key, rest) ==
    LET switching == thread[t].alt /\ key \in {"f1", "f2", "f3"}
    IN /\ thread' = [thread EXCEPT ![t] =
             [pc    |-> IF switching /\ active_terminal # Target(key) THEN "leave" ELSE "keys",
              shift |-> @.shift /\ key # "shift",
              alt   |-> @.alt /\ key # "alt",
              to    |-> IF switching THEN Target(key) ELSE @.to]]
       /\ term' = [term EXCEPT ![t].keyboard = rest]
       /\ UNCHANGED dropped

(* A key pressed in canonical mode: the ascii character joins the line, a       *)
(* newline ends it                                                              *)
Erased_Oldest(line) == IF line = <<>> THEN line ELSE Tail(line)

Erased(line) == IF line = <<>> THEN line ELSE Front(line)

pressed(t, key, rest) ==
    LET c == IF thread[t].shift THEN shifted_qwertz(key) ELSE qwertz(key)
        line == term[t].input
    IN /\ thread' = [thread EXCEPT ![t].shift = @ \/ key = "shift",
                                   ![t].alt = @ \/ key = "alt",
                                   ![t].pc = IF c = Newline THEN "transfer" ELSE "keys"]
       /\ term' = [term EXCEPT ![t].keyboard = rest,
                               ![t].input = IF key = "backspace" THEN Erased(line)
                                            ELSE IF c = None THEN line
                                            ELSE Pushed(line, InputSize, c)]
       /\ dropped' = [dropped EXCEPT ![t] = @ \/ (c # None /\ Len(line) = InputSize)]

(* A code for the program, in raw mode: pushed here, notified in a later step   *)
Forward(t, code, record, next) ==
    /\ term' = [term EXCEPT ![t] = [record EXCEPT !.raw = Pushed(@, RawSize, code)]]
    /\ Goto(t, next)
    /\ UNCHANGED dropped

handle_key(t) ==
    /\ ~panic /\ thread[t].pc = "keys" /\ term[t].keyboard # <<>>
    /\ LET code == Head(term[t].keyboard)
           rest == Tail(term[t].keyboard)
       IN /\ IF term[t].canonical
             THEN IF code[2] THEN released(t, code[1], rest) ELSE pressed(t, code[1], rest)
             ELSE Forward(t, raw_key_to_keycode(code), [term[t] EXCEPT !.keyboard = rest], "notify")
          /\ handled' = [handled EXCEPT ![t] = IF term[t].canonical THEN Append(@, code) ELSE @]
    /\ UNCHANGED <<active_terminal, reader, results, keys, panic>>

(* The line moves to the canonical buffer, a character at a time                *)
transfer(t) ==
    /\ ~panic /\ thread[t].pc = "transfer"
    /\ IF term[t].input = <<>>
       THEN /\ Goto(t, "notify")
            /\ UNCHANGED <<term, dropped>>
       ELSE /\ term' = [term EXCEPT ![t].canonical_buffer = Pushed(@, CanonicalSize, Head(term[t].input)),
                                    ![t].input = Tail(@)]
            /\ dropped' = [dropped EXCEPT ![t] = @ \/ Len(term[t].canonical_buffer) = CanonicalSize]
            /\ UNCHANGED thread
    /\ UNCHANGED <<active_terminal, reader, handled, results, keys, panic>>

(* input_queue.notify_one, then the check of the raw buffer                     *)
Woken == [can_wait |-> "can", raw_wait |-> "pop"]
Notifier == [notify |-> "keys", notify_mouse |-> "mouse"]

notify_one(t) ==
    /\ ~panic /\ thread[t].pc \in DOMAIN Notifier
    /\ reader' = IF reader[t].pc \in DOMAIN Woken
                 THEN [reader EXCEPT ![t].pc = Woken[reader[t].pc]] ELSE reader
    /\ Goto(t, Notifier[thread[t].pc])
    /\ panic' = (Len(term[t].raw) = RawSize)
    /\ UNCHANGED <<term, active_terminal, handled, results, dropped, keys>>

keyboard_empty(t) ==
    /\ ~panic /\ thread[t].pc = "keys" /\ term[t].keyboard = <<>>
    /\ Goto(t, "mouse")
    /\ UNCHANGED <<term, active_terminal, reader, handled, results, dropped, keys, panic>>

handle_mouse(t) ==
    /\ ~panic /\ thread[t].pc = "mouse"
    /\ IF term[t].mouse_buffer = <<>>
       THEN /\ Goto(t, "block")
            /\ UNCHANGED <<term, dropped>>
       ELSE LET rest == [term[t] EXCEPT !.mouse_buffer = Tail(@)]
            IN IF ~term[t].canonical /\ term[t].mouse
               THEN Forward(t, Head(term[t].mouse_buffer), rest, "notify_mouse")
               ELSE /\ term' = [term EXCEPT ![t] = rest]
                    /\ UNCHANGED <<thread, dropped>>
    /\ UNCHANGED <<active_terminal, reader, handled, results, keys, panic>>

(* switch_terminal, statement by statement                                      *)
set_active_Both(t, active) == term' = IF active THEN [term EXCEPT ![t].active = TRUE] ELSE term

set_active(t, active) == term' = [term EXCEPT ![t].active = active]

switch_terminal(t) ==
    /\ ~panic
    /\ \/ /\ thread[t].pc = "leave"
          /\ set_active(active_terminal, FALSE)
          /\ Goto(t, "enter")
          /\ UNCHANGED active_terminal
       \/ /\ thread[t].pc = "enter"
          /\ set_active(thread[t].to, TRUE)
          /\ Goto(t, "switch")
          /\ UNCHANGED active_terminal
       \/ /\ thread[t].pc = "switch"
          /\ active_terminal' = thread[t].to
          /\ Goto(t, "keys")
          /\ UNCHANGED term
    /\ UNCHANGED <<reader, handled, results, dropped, keys, panic>>

-------------------------------------------------------------------------------
(* A program that reads terminal t: ms = Untimed stands for no timeout, 0 for *)
(* a zero timeout, Timed for one that may run out.                              *)
Untimed == 1
Timed == 2

read(t, max, ms) ==
    /\ ~panic /\ reader[t].pc = "idle" /\ Len(results[t]) < MaxReads
    /\ reader' = [reader EXCEPT ![t] = [pc |-> IF term[t].canonical THEN "can" ELSE "raw",
                                        buffer |-> <<>>, max |-> max, ms |-> ms]]
    /\ UNCHANGED <<term, active_terminal, thread, handled, results, dropped, keys, panic>>

Return(t, can, data) ==
    /\ reader' = [reader EXCEPT ![t] = [pc |-> "idle", buffer |-> <<>>, max |-> 0, ms |-> 0]]
    /\ results' = [results EXCEPT ![t] = Append(@, [can |-> can, data |-> data])]

EndsRead_LengthOnly(r, c) == Len(r.buffer) + 1 >= r.max

EndsRead(r, c) == Len(r.buffer) + 1 >= r.max \/ c = Newline

read_input_can(t) ==
    /\ ~panic /\ reader[t].pc = "can"
    /\ LET r == reader[t]
       IN IF term[t].canonical_buffer # <<>>
          THEN LET c == Head(term[t].canonical_buffer)
               IN /\ term' = [term EXCEPT ![t].canonical_buffer = Tail(@)]
                  /\ IF EndsRead(r, c)
                     THEN Return(t, TRUE, Append(r.buffer, c))
                     ELSE /\ reader' = [reader EXCEPT ![t].buffer = Append(@, c)]
                          /\ UNCHANGED results
          ELSE /\ IF r.ms = 0
                  THEN Return(t, TRUE, r.buffer)
                  ELSE /\ reader' = [reader EXCEPT ![t].pc = "can_waits"]
                       /\ UNCHANGED results
               /\ UNCHANGED term
    /\ UNCHANGED <<active_terminal, thread, handled, dropped, keys, panic>>

read_input_raw(t) ==
    /\ ~panic /\ reader[t].pc = "raw"
    /\ IF term[t].raw # <<>>
       THEN /\ reader' = [reader EXCEPT ![t].pc = "pop"]
            /\ UNCHANGED results
       ELSE IF reader[t].ms = 0
       THEN Return(t, FALSE, <<TIMEOUT>>)
       ELSE /\ reader' = [reader EXCEPT ![t].pc = "raw_waits"]
            /\ UNCHANGED results
    /\ UNCHANGED <<term, active_terminal, thread, handled, dropped, keys, panic>>

(* The pop. Empty here is the assertion of the timed read; the untimed read pops *)
(* an empty ring, which is not followed further.                                *)
pop_raw(t) ==
    /\ ~panic /\ reader[t].pc = "pop"
    /\ IF term[t].raw = <<>>
       THEN /\ panic' = TRUE
            /\ UNCHANGED <<term, reader, results>>
       ELSE /\ Return(t, FALSE, <<Head(term[t].raw)>>)
            /\ term' = [term EXCEPT ![t].raw = Tail(@)]
            /\ UNCHANGED panic
    /\ UNCHANGED <<active_terminal, thread, handled, dropped, keys>>

(* wait and wait_for put the reader to sleep after its test of the buffer        *)
Asleep == [can_waits |-> "can_wait", raw_waits |-> "raw_wait"]

wait(t) ==
    /\ ~panic /\ reader[t].pc \in DOMAIN Asleep
    /\ reader' = [reader EXCEPT ![t].pc = Asleep[@]]
    /\ UNCHANGED <<term, active_terminal, thread, handled, results, dropped, keys, panic>>

expire(t) ==
    /\ ~panic /\ reader[t].ms = Timed /\ reader[t].pc \in DOMAIN Woken
    /\ IF reader[t].pc = "can_wait"
       THEN Return(t, TRUE, reader[t].buffer) ELSE Return(t, FALSE, <<TIMEOUT>>)
    /\ UNCHANGED <<term, active_terminal, thread, handled, dropped, keys, panic>>

(* set_canonical and set_mouse, by the program between its reads                *)
set_canonical(t, can) ==
    /\ ~panic /\ reader[t].pc = "idle" /\ can # term[t].canonical
    /\ term' = [term EXCEPT ![t].canonical = can]
    /\ UNCHANGED <<active_terminal, thread, reader, handled, results, dropped, keys, panic>>

set_mouse(t, m) ==
    /\ ~panic /\ reader[t].pc = "idle" /\ m # term[t].mouse
    /\ term' = [term EXCEPT ![t].mouse = m]
    /\ UNCHANGED <<active_terminal, thread, reader, handled, results, dropped, keys, panic>>

Thread(t) == \/ block_process(t) \/ handle_key(t) \/ transfer(t) \/ notify_one(t)
             \/ keyboard_empty(t) \/ handle_mouse(t) \/ switch_terminal(t)

Program(t) == \/ \E r \in Reads : read(t, r[1], r[2])
              \/ read_input_can(t) \/ read_input_raw(t) \/ pop_raw(t) \/ wait(t) \/ expire(t)
              \/ Raw /\ \E b \in BOOLEAN : set_canonical(t, b) \/ set_mouse(t, b)

Next == \/ \E code \in Keys : keyboard_handler(code)
        \/ mouse_handler
        \/ \E t \in Terminals : Thread(t) \/ Program(t)

Spec == Init /\ [][Next]_vars

-------------------------------------------------------------------------------
(* What a line editor makes of the keys: the characters of every finished line  *)
Edited(codes) ==
    LET Step(s, code) ==
          LET c == IF s.shift THEN shifted_qwertz(code[1]) ELSE qwertz(code[1])
          IN CASE code[2] -> [s EXCEPT !.shift = @ /\ code[1] # "shift"]
               [] ~code[2] /\ code[1] = "shift" -> [s EXCEPT !.shift = TRUE]
               [] ~code[2] /\ code[1] = "backspace" ->
                    [s EXCEPT !.line = SubSeq(@, 1, Len(@) - 1)]
               [] ~code[2] /\ code[1] \notin {"shift", "backspace"} /\ c = Newline ->
                    [s EXCEPT !.text = @ \o Append(s.line, c), !.line = <<>>]
               [] ~code[2] /\ code[1] \notin {"shift", "backspace"} /\ c # Newline ->
                    [s EXCEPT !.line = IF c = None THEN @ ELSE Append(@, c)]
    IN FoldLeft(Step, [shift |-> FALSE, line |-> <<>>, text |-> <<>>], codes)

Text(t) == FoldLeft(LAMBDA text, r : IF r.can THEN text \o r.data ELSE text, <<>>, results[t])

(* What programs have read in canonical mode, what they are reading, what waits *)
(* in the canonical buffer and what the input thread is transferring are, in    *)
(* this order, the lines typed and edited on the terminal, unless a full buffer *)
(* dropped a character: no interleaving of the interrupts, the thread, the      *)
(* reads and their timeouts loses, repeats or reorders one.                     *)
TypedIsRead ==
    \A t \in Terminals : ~dropped[t] =>
        Text(t) \o reader[t].buffer \o term[t].canonical_buffer
                \o (IF thread[t].pc = "transfer" THEN term[t].input ELSE <<>>)
        = Edited(handled[t]).text

(* read_input_can returns at most one line: a newline is only ever the last     *)
(* character of a result, whatever the reader was given before it slept.        *)
OneLinePerRead ==
    \A t \in Terminals : \A k \in DOMAIN results[t] : results[t][k].can =>
        \A i \in 1 .. Len(results[t][k].data) - 1 : results[t][k].data[i] # Newline

(* The flag `active` of the terminals, which says whose output is drawn, agrees  *)
(* with active_terminal, which says who gets the keys, whenever no input thread  *)
(* is inside switch_terminal.                                                    *)
OneActive ==
    (\A t \in Terminals : thread[t].pc \notin {"leave", "enter", "switch"}) =>
        \A t \in Terminals : term[t].active = (t = active_terminal)
===============================================================================
