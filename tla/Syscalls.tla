------------------------------ MODULE Syscalls ------------------------------
(***************************************************************************)
(* System calls, from the stub of the user library to the handler of the   *)
(* kernel and back (tlib/src/*.cpp, kernel/src/system_calls.cpp,           *)
(* syscalls.s, common.s, task_switch.s).                                   *)
(*                                                                         *)
(* A stub loads the code and its arguments into registers and executes     *)
(* int 50.  The kernel enables interrupts, saves the registers in a frame  *)
(* on the stack of the process, finds the handler in system_calls, and the *)
(* handler reads its arguments from the frame and writes its answer there. *)
(* There is one set of CPU registers: the process may be preempted at any  *)
(* point of this, and another one may be in the middle of its own call.    *)
(*                                                                         *)
(* The stubs and the handlers are two tables that the code keeps by hand   *)
(* in different programs: they are translated separately here.  The value  *)
(* a program gives for a parameter is the pair of the process and the      *)
(* parameter's name.                                                       *)
(***************************************************************************)
EXTENDS Integers, Sequences, TLC

CONSTANTS Processes,    \* the processes
          CallsOf,      \* the stubs each process calls
          MaxCalls      \* bound: calls a process makes

VARIABLES cpu,          \* the registers of the CPU
          current,      \* the process on the CPU
          context,      \* the registers task_switch saved, per process
          frame,        \* the syscall_regs on the stack of each process
          pc,           \* where each process is
          call,         \* the stub each process is in
          operation,    \* what the handler was asked to do, per process
          answer,       \* what the kernel answered, per process
          calls         \* calls each process made

vars == <<cpu, current, context, frame, pc, call, operation, answer, calls>>

\* ---- the stubs: code, parameters in rbx, rcx, rdx, rsi, rdi, and result ---
system_stubs ==
    [log |-> <<2, <<"s">>, "none">>,
     sleep_ms |-> <<4, <<"ms">>, "none">>,
     exec |-> <<5, <<"file", "argc", "argv">>, "expected">>,
     await_termination |-> <<6, <<"pid">>, "none">>,
     exit |-> <<\H666, <<"return_code">>, "none">>,
     local_date |-> <<\H400, <<"buffer">>, "none">>,
     s_time |-> <<\H401, <<>>, "value">>,
     ms_time |-> <<\H402, <<>>, "value">>,
     reboot |-> <<\H50, <<>>, "none">>,
     shutdown |-> <<\H51, <<>>, "none">>,
     alpha |-> <<\H66, <<>>, "none">>]

memory_stubs ==
    [brk_start |-> <<7, <<>>, "value">>,
     brk_end |-> <<8, <<>>, "value">>,
     sbrk |-> <<9, <<"inc">>, "value">>]

mode_stubs ==
    [set_canonical |-> <<\H20, <<"value">>, "none">>,
     set_mouse |-> <<\H21, <<"value">>, "none">>]

screen_stubs ==
    [clear_screen |-> <<\H22, <<>>, "none">>,
     get_columns |-> <<\H23, <<>>, "value">>,
     get_rows |-> <<\H24, <<>>, "value">>]

graphics_stubs ==
    [get_width |-> <<\HC00, <<>>, "value">>,
     get_height |-> <<\HC01, <<>>, "value">>,
     get_x_shift |-> <<\HC02, <<>>, "value">>,
     get_y_shift |-> <<\HC03, <<>>, "value">>,
     get_bytes_per_scan_line |-> <<\HC04, <<>>, "value">>,
     get_red_shift |-> <<\HC05, <<>>, "value">>,
     get_green_shift |-> <<\HC06, <<>>, "value">>,
     get_blue_shift |-> <<\HC07, <<>>, "value">>,
     redraw |-> <<\HC08, <<"buffer">>, "none">>,
     mouse_x |-> <<\HCA0, <<>>, "value">>,
     mouse_y |-> <<\HCA1, <<>>, "value">>]

file_stubs ==
    [open |-> <<\H300, <<"file", "flags">>, "expected">>,
     mkdir |-> <<\H306, <<"file">>, "expected">>,
     rm |-> <<\H307, <<"file">>, "expected">>,
     close |-> <<\H302, <<"fd">>, "none">>,
     stat |-> <<\H301, <<"fd", "info">>, "expected">>,
     statfs |-> <<\H310, <<"mount_point", "info">>, "expected">>,
     read |-> <<\H303, <<"fd", "buffer", "max", "offset">>, "expected">>,
     read_timeout |->
        <<\H315, <<"fd", "buffer", "max", "offset", "ms">>, "expected">>,
     write |-> <<\H311, <<"fd", "buffer", "max", "offset">>, "expected">>]

volume_stubs ==
    [clear |-> <<\H313, <<"fd", "max", "offset">>, "expected">>,
     truncate |-> <<\H312, <<"fd", "size">>, "expected">>,
     entries |-> <<\H308, <<"fd", "buffer", "max">>, "expected">>,
     mounts |-> <<\H309, <<"buffer", "max">>, "expected">>,
     mount |-> <<\H314, <<"type", "mp_fd", "dev_fd">>, "expected">>,
     current_working_directory |-> <<\H304, <<"buffer">>, "none">>,
     set_current_working_directory |-> <<\H305, <<"p">>, "none">>,
     ioctl |-> <<\HA00, <<"device", "request", "data">>, "expected">>]

packet_stubs ==
    [socket_open |-> <<\HB00, <<"domain", "type", "protocol">>, "expected">>,
     socket_close |-> <<\HB01, <<"fd">>, "none">>,
     prepare_packet |-> <<\HB02, <<"socket", "desc", "buffer">>, "prepared">>,
     finalize_packet |-> <<\HB03, <<"socket", "packet">>, "expected">>,
     send |-> <<\HB0B, <<"socket", "buffer", "n", "target">>, "expected">>,
     send_to |->
        <<\HB13, <<"socket", "buffer", "n", "target", "address">>, "expected">>,
     receive |-> <<\HB10, <<"socket", "buffer", "n">>, "expected">>,
     receive_timeout |->
        <<\HB0C, <<"socket", "buffer", "n", "ms">>, "expected">>,
     receive_from |->
        <<\HB11, <<"socket", "buffer", "n", "address">>, "expected">>,
     receive_from_timeout |->
        <<\HB12, <<"socket", "buffer", "n", "ms", "address">>, "expected">>]

connection_stubs ==
    [listen |-> <<\HB04, <<"socket", "listen">>, "expected">>,
     client_bind |-> <<\HB07, <<"socket", "ip">>, "expected">>,
     client_bind_port |-> <<\HB0D, <<"socket", "ip", "port">>, "expected">>,
     server_bind |-> <<\HB0E, <<"socket", "ip">>, "expected">>,
     server_bind_port |-> <<\HB0F, <<"socket", "ip", "port">>, "expected">>,
     client_unbind |-> <<\HB0A, <<"socket">>, "expected">>,
     connect |-> <<\HB08, <<"socket", "ip", "port">>, "expected">>,
     server_start |-> <<\HB14, <<"socket", "ip", "port">>, "expected">>,
     accept |-> <<\HB16, <<"socket">>, "expected">>,
     accept_timeout |-> <<\HB17, <<"socket", "ms">>, "expected">>,
     disconnect |-> <<\HB09, <<"socket">>, "expected">>]

waiting_stubs ==
    [wait_for_packet |-> <<\HB05, <<"socket", "buffer">>, "packet">>,
     wait_for_packet_ms |-> <<\HB06, <<"socket", "buffer", "ms">>, "packet">>,
     dns_server |-> <<\HB15, <<>>, "value">>]

\* A program may also execute int 50 with a code nobody registered.
Stubs == system_stubs @@ memory_stubs @@ mode_stubs @@ screen_stubs
           @@ graphics_stubs @@ file_stubs @@ volume_stubs @@ packet_stubs
           @@ connection_stubs @@ waiting_stubs
           @@ [unknown |-> <<\HFFF, <<>>, "none">>]

\* ---- system_calls: code, operation, parameters read from rbx, rcx, rdx, ----
\* ---- rsi, rdi, and what is written to rax and rbx                       ----
process_handlers ==
    {<<2, "log", <<"s">>, "none">>,
     <<4, "sleep_ms", <<"ms">>, "none">>,
     <<5, "exec", <<"file", "argc", "argv">>, "size">>,
     <<6, "await_termination", <<"pid">>, "none">>,
     <<7, "brk_start", <<>>, "value">>,
     <<8, "brk_end", <<>>, "value">>,
     <<9, "sbrk", <<"inc">>, "value">>,
     <<\H20, "set_canonical", <<"value">>, "none">>,
     <<\H21, "set_mouse", <<"value">>, "none">>,
     <<\H22, "clear_screen", <<>>, "none">>,
     <<\H23, "get_columns", <<>>, "value">>,
     <<\H24, "get_rows", <<>>, "value">>,
     <<\H50, "reboot", <<>>, "never">>,
     <<\H51, "shutdown", <<>>, "never">>,
     <<\H66, "alpha", <<>>, "none">>}

file_handlers ==
    {<<\H300, "open", <<"file", "flags">>, "size">>,
     <<\H302, "close", <<"fd">>, "none">>,
     <<\H301, "stat", <<"fd", "info">>, "void">>,
     <<\H310, "statfs", <<"mount_point", "info">>, "void">>,
     <<\H303, "read", <<"fd", "buffer", "max", "offset">>, "size">>,
     <<\H315, "read_timeout",
       <<"fd", "buffer", "max", "offset", "ms">>, "size">>,
     <<\H311, "write", <<"fd", "buffer", "max", "offset">>, "size">>,
     <<\H313, "clear", <<"fd", "max", "offset">>, "size">>,
     <<\H312, "truncate", <<"fd", "size">>, "void">>,
     <<\H308, "entries", <<"fd", "buffer", "max">>, "size">>,
     <<\H309, "mounts", <<"buffer", "max">>, "size">>,
     <<\H304, "current_working_directory", <<"buffer">>, "none">>,
     <<\H305, "set_current_working_directory", <<"p">>, "none">>,
     <<\H306, "mkdir", <<"file">>, "void">>,
     <<\H307, "rm", <<"file">>, "void">>}

\* Plausible bug: the handler takes the two descriptors in the order of the
\* parameters of tlib::mount.
sc_mount_Swapped == <<\H314, "mount", <<"type", "dev_fd", "mp_fd">>, "void">>
sc_mount == <<\H314, "mount", <<"type", "mp_fd", "dev_fd">>, "void">>

device_handlers ==
    {<<\H400, "local_date", <<"buffer">>, "none">>,
     <<\H401, "s_time", <<>>, "value">>,
     <<\H402, "ms_time", <<>>, "value">>,
     <<\HC00, "get_width", <<>>, "value">>,
     <<\HC01, "get_height", <<>>, "value">>,
     <<\HC02, "get_x_shift", <<>>, "value">>,
     <<\HC03, "get_y_shift", <<>>, "value">>,
     <<\HC04, "get_bytes_per_scan_line", <<>>, "value">>,
     <<\HC05, "get_red_shift", <<>>, "value">>,
     <<\HC06, "get_green_shift", <<>>, "value">>,
     <<\HC07, "get_blue_shift", <<>>, "value">>,
     <<\HC08, "redraw", <<"buffer">>, "none">>,
     <<\HCA0, "mouse_x", <<>>, "value">>,
     <<\HCA1, "mouse_y", <<>>, "value">>,
     <<\HA00, "ioctl", <<"device", "request", "data">>, "size">>}

packet_handlers ==
    {<<\HB00, "socket_open", <<"domain", "type", "protocol">>, "size">>,
     <<\HB01, "socket_close", <<"fd">>, "none">>,
     <<\HB02, "prepare_packet", <<"socket", "desc", "buffer">>, "prepared">>,
     <<\HB03, "finalize_packet", <<"socket", "packet">>, "void">>,
     <<\HB0B, "send", <<"socket", "buffer", "n", "target">>, "void">>,
     <<\HB13, "send_to",
       <<"socket", "buffer", "n", "target", "address">>, "void">>,
     <<\HB10, "receive", <<"socket", "buffer", "n">>, "size">>,
     <<\HB0C, "receive_timeout", <<"socket", "buffer", "n", "ms">>, "size">>,
     <<\HB11, "receive_from", <<"socket", "buffer", "n", "address">>, "size">>,
     <<\HB12, "receive_from_timeout",
       <<"socket", "buffer", "n", "ms", "address">>, "size">>}

connection_handlers ==
    {<<\HB04, "listen", <<"socket", "listen">>, "void">>,
     <<\HB07, "client_bind", <<"socket", "ip">>, "size">>,
     <<\HB0D, "client_bind_port", <<"socket", "ip", "port">>, "size">>,
     <<\HB0E, "server_bind", <<"socket", "ip">>, "void">>,
     <<\HB0F, "server_bind_port", <<"socket", "ip", "port">>, "void">>,
     <<\HB0A, "client_unbind", <<"socket">>, "void">>,
     <<\HB08, "connect", <<"socket", "ip", "port">>, "size">>,
     <<\HB14, "server_start", <<"socket", "ip", "port">>, "void">>,
     <<\HB16, "accept", <<"socket">>, "size">>,
     <<\HB17, "accept_timeout", <<"socket", "ms">>, "size">>,
     <<\HB15, "dns_server", <<>>, "value">>,
     <<\HB09, "disconnect", <<"socket">>, "void">>,
     <<\HB05, "wait_for_packet", <<"socket", "buffer">>, "packet">>,
     <<\HB06, "wait_for_packet_ms", <<"socket", "buffer", "ms">>, "packet">>,
     <<\H666, "exit", <<>>, "never">>}

system_calls ==
    process_handlers \cup file_handlers \cup {sc_mount} \cup device_handlers
      \cup packet_handlers \cup connection_handlers

\* ---- registers -------------------------------------------------------------
Registers == {"rax", "rbx", "rcx", "rdx", "rsi", "rdi"}
Arguments == <<"rbx", "rcx", "rdx", "rsi", "rdi">>

\* What kernel code leaves in the registers it uses.
Scratch == [r \in Registers |-> <<>>]

Nothing == <<>>

Init == /\ cpu = Scratch
        /\ current \in Processes
        /\ context = [p \in Processes |-> Scratch]
        /\ frame = [p \in Processes |-> Scratch]
        /\ pc = [p \in Processes |-> "program"]
        /\ call = [p \in Processes |-> "unknown"]
        /\ operation = [p \in Processes |-> Nothing]
        /\ answer = [p \in Processes |-> Nothing]
        /\ calls = [p \in Processes |-> 0]

\* The body of a stub up to int 50.
stub(p, s) ==
    /\ pc[p] = "program"
    /\ calls[p] < MaxCalls
    /\ cpu' = [r \in Registers |->
                 IF r = "rax" THEN Stubs[s][1]
                 ELSE IF \E i \in DOMAIN Stubs[s][2] : Arguments[i] = r
                 THEN <<p, Stubs[s][2][CHOOSE i \in 1 .. 5 : Arguments[i] = r]>>
                 ELSE cpu[r]]
    /\ call' = [call EXCEPT ![p] = s]
    /\ calls' = [calls EXCEPT ![p] = @ + 1]
    /\ pc' = [pc EXCEPT ![p] = "int"]
    /\ UNCHANGED <<current, context, frame, operation, answer>>

\* The gate and save_context: the registers become the syscall_regs.
save_context(p) ==
    /\ pc[p] = "int"
    /\ frame' = [frame EXCEPT ![p] = cpu]
    /\ cpu' = Scratch
    /\ pc' = [pc EXCEPT ![p] = "handler"]
    /\ UNCHANGED <<current, context, call, operation, answer, calls>>

\* system_call_entry and the beginning of the handler: it reads its arguments
\* from the frame.  A code without handler kills the process.
system_call_entry(p) ==
    /\ pc[p] = "handler"
    /\ IF \E h \in system_calls : h[1] = frame[p].rax
       THEN LET h == CHOOSE x \in system_calls : x[1] = frame[p].rax
            IN  /\ operation' = [operation EXCEPT ![p] =
                      [handler |-> h,
                       given |-> [i \in DOMAIN h[3] |->
                                    frame[p][Arguments[i]]]]]
                /\ pc' = [pc EXCEPT ![p] =
                            IF h[4] = "never" THEN "gone" ELSE "serving"]
       ELSE /\ pc' = [pc EXCEPT ![p] = "gone"]
            /\ UNCHANGED operation
    /\ UNCHANGED <<cpu, current, context, frame, call, answer, calls>>

\* What an operation may return: a value, or the code of an error.
Outcomes(ret) ==
    CASE ret = "none" -> {[ok |-> TRUE, value |-> 0]}
      [] ret = "value" -> {[ok |-> TRUE, value |-> 5]}
      [] ret = "void" -> {[ok |-> TRUE, value |-> 0],
                          [ok |-> FALSE, value |-> 3]}
      [] OTHER -> {[ok |-> TRUE, value |-> v] : v \in {0, 5}}
                    \cup {[ok |-> FALSE, value |-> 3]}

\* Plausible bug: the error is returned as it is, not negated.
expected_to_i64_Positive(o) == o.value
expected_to_i64(o) == IF o.ok THEN o.value ELSE -o.value

\* The end of the handler: the answer goes to rax of the frame.  rbx gets the
\* payload index of a prepared packet, or the buffer of a received one.
Answered(p, h, o) ==
    [r \in Registers |->
       IF r = "rax" /\ h[4] # "none" THEN expected_to_i64(o)
       ELSE IF r = "rbx" /\ h[4] = "prepared" THEN <<p, "index">>
       ELSE IF r = "rbx" /\ h[4] = "packet" THEN operation[p].given[2]
       ELSE frame[p][r]]

finish(p) ==
    /\ pc[p] = "serving"
    /\ LET h == operation[p].handler
       IN  \E o \in Outcomes(h[4]) :
              /\ answer' = [answer EXCEPT ![p] = o]
              /\ frame' = [frame EXCEPT ![p] = Answered(p, h, o)]
    /\ pc' = [pc EXCEPT ![p] = "iret"]
    /\ UNCHANGED <<cpu, current, context, call, operation, calls>>

restore_context(p) ==
    /\ pc[p] = "iret"
    /\ cpu' = frame[p]
    /\ pc' = [pc EXCEPT ![p] = "returned"]
    /\ UNCHANGED <<current, context, frame, call, operation, answer, calls>>

\* The stub makes an std::expected of rax.
Decoded(code) == IF code < 0 THEN [ok |-> FALSE, value |-> -code]
                 ELSE [ok |-> TRUE, value |-> code]

\* The stub returns its result to the program.
result(p) ==
    /\ pc[p] = "returned"
    /\ pc' = [pc EXCEPT ![p] = "program"]
    /\ operation' = [operation EXCEPT ![p] = Nothing]
    /\ answer' = [answer EXCEPT ![p] = Nothing]
    /\ call' = [call EXCEPT ![p] = "unknown"]
    /\ frame' = [frame EXCEPT ![p] = Scratch]
    /\ UNCHANGED <<cpu, current, context, calls>>

\* The scheduler runs another process: it may do so at any point, interrupts
\* being enabled in the handlers.
task_switch(q) ==
    /\ q # current
    /\ pc[q] # "gone"
    /\ context' = [context EXCEPT ![current] = cpu]
    /\ cpu' = context[q]
    /\ current' = q
    /\ UNCHANGED <<frame, pc, call, operation, answer, calls>>

Next == \/ \E s \in CallsOf[current] : stub(current, s)
        \/ save_context(current)
        \/ system_call_entry(current)
        \/ finish(current)
        \/ restore_context(current)
        \/ result(current)
        \/ \E q \in Processes : task_switch(q)

Spec == Init /\ [][Next]_vars

\* A handler does what the stub it was called from is named for, and reads
\* from the saved registers, for each of its parameters, the value that the
\* calling program gave for this parameter, whatever other process was run in
\* between (the stubs of tlib against the table of install_system_calls and
\* the handlers).
CallReachesItsHandler ==
    \A p \in Processes :
        operation[p] # Nothing =>
            LET h == operation[p].handler
            IN  /\ h[2] = call[p]
                /\ \A i \in DOMAIN h[3] :
                      operation[p].given[i] = <<p, h[3][i]>>

\* When a stub has come back from the kernel, what it finds in the registers
\* decodes to what the kernel operation answered to this very call: the value,
\* or the error; and a packet the stub builds has the caller's buffer, or the
\* index of the packet that was prepared for it.
AnswerReachesItsCaller ==
    pc[current] = "returned" =>
        LET r == Stubs[call[current]][3]
        IN  /\ r # "none" => Decoded(cpu.rax) = answer[current]
            /\ r = "packet" => cpu.rbx = <<current, "buffer">>
            /\ r = "prepared" => cpu.rbx = <<current, "index">>
=============================================================================
