-------------------------------- MODULE Uart --------------------------------
(***************************************************************************)
(* A local serial port (links/uart.c): the settings the link keeps, the    *)
(* settings and the exclusive flag the tty keeps, and how opening, closing *)
(* and changing a parameter carry the first over to the second.  The tty   *)
(* is one that another process also holds open, so that its flag and its   *)
(* settings outlive our close.                                             *)
(*                                                                         *)
(* A setting is a baud rate and a frame (data bits, parity, stop bits and  *)
(* flow control, which the code always applies together).  The modem lines *)
(* and the BREAK are LineControl's.                                        *)
(***************************************************************************)
EXTENDS LinkQueue

CONSTANTS Bauds, Frames

VARIABLES
  ud,         \* the settings of the link: baud, and data_bits ... flow_control
  tty,        \* the settings the tty has
  excl,       \* the exclusive flag of the tty
  orig,       \* orig_termios
  unapplied,  \* history: a frame was stored that the tty refused
  strayed     \* history: an open failed after it had claimed the port

uartVars == <<ud, tty, excl, orig, unapplied, strayed>>

Settings == [baud : Bauds, frame : Frames]

UartInit ==
  /\ ud \in Settings /\ tty \in Settings /\ excl = FALSE
  /\ orig = tty
  /\ unapplied = FALSE /\ strayed = FALSE

\* The frame of the link is not applied: the tty keeps the one it had.
uart_open_keeps_frame(outcome, claims) ==
  /\ fd = "closed" /\ outcome = "opens"
  /\ excl' = (excl \/ claims) /\ orig' = tty
  /\ tty' = [tty EXCEPT !.baud = ud.baud]
  /\ fd' = "open" /\ FreshStream /\ unapplied' = FALSE
  /\ UNCHANGED <<wq, ud, strayed>>

\* uart_open.  open() itself is refused (there is no port, or it is claimed by
\* a stray claim of ours too): nothing has happened.  Otherwise the port is
\* claimed, which may fail and is then only logged, its settings are saved and
\* the link's are applied; when reading or applying them fails the descriptor
\* is closed and the claim stays.  A claimed port still opens for a privileged
\* process.
uart_open(outcome, claims) ==
  /\ fd = "closed"
  /\ \/ /\ outcome = "refused"
        /\ UNCHANGED <<fd, sent, historyVars, tty, excl, orig, unapplied, strayed>>
     \/ /\ outcome = "fails"
        /\ excl' = (excl \/ claims) /\ strayed' = (strayed \/ claims)
        /\ orig' = tty
        /\ UNCHANGED <<fd, sent, historyVars, tty, unapplied>>
     \/ /\ outcome = "opens"
        /\ excl' = (excl \/ claims)
        /\ orig' = tty /\ tty' = ud /\ unapplied' = FALSE
        /\ fd' = "open" /\ FreshStream
        /\ UNCHANGED strayed
  /\ UNCHANGED <<wq, ud>>

\* The claim is left to the close of the descriptor.
uart_close_keeps_claim ==
  /\ fd = "open" /\ fd' = "closed"
  /\ wq' = <<>>
  /\ tty' = orig
  /\ strayed' = FALSE
  /\ UNCHANGED <<sent, historyVars, ud, excl, orig, unapplied>>

\* uart_close: drop what is queued, put the old settings back, drop the claim.
uart_close ==
  /\ fd = "open" /\ fd' = "closed"
  /\ wq' = <<>>
  /\ tty' = orig
  /\ excl' = FALSE
  /\ strayed' = FALSE
  /\ UNCHANGED <<sent, historyVars, ud, orig, unapplied>>

\* uart_write: no escape, no telnet.
uart_write(data, k, err) ==
  /\ fd = "open" /\ k <= Len(data)
  /\ QueuedWrite(data, data, k, err)
  /\ UNCHANGED <<fd, uartVars>>

\* uart_set_param of "baud": stored once the tty has it.
uart_set_baud(baud, fails) ==
  /\ fd = "open"
  /\ ~fails
  /\ tty' = [tty EXCEPT !.baud = baud]
  /\ ud' = [ud EXCEPT !.baud = baud]
  /\ UNCHANGED <<queueVars, excl, orig, unapplied, strayed>>

\* uart_set_param of the frame: stored, then applied by uart_reapply_config.
uart_set_frame(frame, fails) ==
  /\ fd = "open"
  /\ ud' = [ud EXCEPT !.frame = frame]
  /\ tty' = IF fails THEN tty ELSE [tty EXCEPT !.frame = frame]
  /\ unapplied' = fails
  /\ UNCHANGED <<queueVars, excl, orig, strayed>>

\* Another program (a flasher, say) takes a port nobody claims and sets it up.
OtherProgramSets(settings) ==
  /\ fd = "closed" /\ ~excl
  /\ tty' = settings
  /\ UNCHANGED <<queueVars, ud, excl, orig, unapplied, strayed>>

(***************************************************************************)
(* Properties.                                                             *)
(***************************************************************************)

UartTypeOK ==
  /\ ud \in Settings /\ tty \in Settings /\ orig \in Settings
  /\ excl \in BOOLEAN /\ unapplied \in BOOLEAN /\ strayed \in BOOLEAN

\* While the port is open the tty has the settings the link reports, also
\* after a suspend in which another program set the port up differently; a
\* frame the tty refused is excepted, because uart_set_param stores it before
\* it applies it (uart_open, uart_reapply_config).
SettingsTrue ==
  fd = "open" => /\ tty.baud = ud.baud
                 /\ ~unapplied => tty.frame = ud.frame

\* A closed port is handed back: another program can open it (the comment in
\* uart_close: the claim "lives on the tty, not the fd").  Not so after an open
\* that failed once it had claimed the port (strayed): it does not drop the
\* claim, and the port stays claimed until the link was opened and closed again.
PortHandedBack ==
  (fd = "closed" /\ ~strayed) => ~excl
=============================================================================
