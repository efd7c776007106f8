------------------------------ MODULE Session ------------------------------
(***************************************************************************)
(* From the command line to a scan: parse_args of src/src/cli.rs, the      *)
(* fields of the window that are filled from its options (GuiOptions of    *)
(* src/src/gui.rs), what the user does to them, and the configuration a    *)
(* click makes of them.  The scan itself is Gui's and Scan's matter; here  *)
(* a job only keeps the window busy.                                       *)
(***************************************************************************)
EXTENDS Targets

CONSTANTS
  Arguments,      \* what may be on a command line, see Argument
  Edits,          \* texts the user may put in the target field
  RangeEdits,     \* and in the range field
  ThreadEdits,    \* and numbers in the thread field
  Resolutions,    \* what a host name may resolve to at the moment it is asked for
  Rows,           \* the address lists of discovered devices
  LinkLocal,      \* the IPv6 addresses fe80::/10
  HardMaxThreads,
  MaxArgs,        \* bound: arguments of a command line
  MaxTouches      \* bound: changes the user makes to the fields

ASSUME SessionAssumption ==
  /\ \A a \in Arguments :
       /\ a.flag = "target" => IsText(a.value)
       /\ a.flag = "--range" => a.value \in Seq(Nat)
  /\ \A text \in Edits : IsText(text)
  /\ RangeEdits \subseteq Seq(Nat)
  /\ Rows \subseteq Seq(Address) /\ <<>> \notin Rows
  /\ Resolutions \subseteq Seq(Address)
  /\ HardMaxThreads \in Nat \ {0}
  /\ MaxArgs \in Nat /\ MaxTouches \in Nat

(* An argument and its value.  The flag "bad" is one that is unknown, or  *)
(* whose value is missing or not of its type; "target" is the positional. *)
Argument(flag, value) == [flag |-> flag, value |-> value]

AutoThreads == [mode |-> "auto"]
MaxThreads == [mode |-> "max"]
FixedThreads(n) == [mode |-> "fixed", n |-> n]

VARIABLES
  pc,       \* "args", "exit" or "window"
  args,     \* the locals of parse_args
  fields,   \* opts of the window
  busy,     \* a discovery or a scan is on
  scan      \* the configuration of the scan that is on, or NoScan

(* History.  What the command line said is of interest until the user *)
(* changes a field, and is forgotten then.                            *)
VARIABLES
  given,    \* the arguments parsed
  options,  \* the ScanOptions the window was opened with, or NoOptions
  asked,    \* what the scan that is on was launched from
  touches   \* how often the user, or the settings panel, has changed a field

vars == <<pc, args, fields, busy, scan, given, options, asked, touches>>

NoTarget == [form |-> "none"]
NoRange == <<>>
NoOptions == [targets |-> <<>>]
NoScan == [targets |-> <<>>]
NotAsked == [text |-> Blank]

Defaults == [threads |-> AutoThreads, fast |-> 100, slow |-> 800, verify |-> TRUE, stop |-> TRUE]
WholeRange == <<1, MaxPort>>
BlankRange == <<>>
NoArgs == [target |-> NoTarget, range |-> NoRange, settings |-> Defaults]

Init ==
  /\ pc = "args"
  /\ args = NoArgs
  /\ fields = [target |-> Blank, range |-> WholeRange, settings |-> Defaults]
  /\ busy = FALSE /\ scan = NoScan
  /\ given = <<>> /\ options = NoOptions /\ asked = NotAsked /\ touches = 0

-----------------------------------------------------------------------------
(* parse_args, one argument at a time. *)

ValidThreads(t) == t.mode = "fixed" => t.n \in 1..HardMaxThreads

(* The argument ends the program: an error, or the help text. *)
Refused(a) ==
  \/ a.flag \in {"bad", "--help"}
  \/ a.flag = "--range" /\ ~ValidRange(a.value)
  \/ a.flag = "--threads" /\ ~ValidThreads(a.value)
  \/ a.flag = "target" /\ args.target # NoTarget

\* Mutant: --timeout leaves a slow timeout alone that was given before.
BothTimeouts_KeepSlow(s, ms) ==
  [s EXCEPT !.fast = ms, !.slow = IF @ = Defaults.slow THEN ms ELSE @]
BothTimeouts(s, ms) == [s EXCEPT !.fast = ms, !.slow = ms]

Set(s, a) ==
  CASE a.flag = "--threads" -> [s EXCEPT !.threads = a.value]
    [] a.flag = "--timeout-fast" -> [s EXCEPT !.fast = a.value]
    [] a.flag = "--timeout-slow" -> [s EXCEPT !.slow = a.value]
    [] a.flag = "--timeout" -> BothTimeouts(s, a.value)
    [] a.flag \in {"--verify", "--no-verify"} -> [s EXCEPT !.verify = a.flag = "--verify"]
    [] a.flag \in {"--first", "--all"} -> [s EXCEPT !.stop = a.flag = "--first"]
    [] OTHER -> s

ParseArg(a) ==
  /\ pc = "args" /\ Len(given) < MaxArgs
  /\ \/ Refused(a) /\ pc' = "exit" /\ UNCHANGED <<args, given>>
     \/ /\ ~Refused(a)
        /\ args' = [target |-> IF a.flag = "target" THEN a.value ELSE args.target,
                    range |-> IF a.flag = "--range" THEN a.value ELSE args.range,
                    settings |-> Set(args.settings, a)]
        /\ given' = Append(given, a)
        /\ UNCHANGED pc
  /\ UNCHANGED <<fields, busy, scan, options, asked, touches>>

(* GuiOptions::from tells the whole list by how many ports there are. *)
RangeOf(ports) ==
  IF Len(ports) = Len(DefaultPorts) THEN WholeRange ELSE <<ports[1], ports[Len(ports)]>>

(* The end of parse_args, and App::new, which starts a discovery. *)
OpenWindow ==
  /\ pc' = "window" /\ busy' = TRUE
  /\ args' = NoArgs
  /\ UNCHANGED <<scan, given, asked, touches>>

Exit ==
  /\ pc' = "exit"
  /\ UNCHANGED <<args, fields, busy, scan, given, options, asked, touches>>

Ports == IF args.range = NoRange THEN DefaultPorts ELSE PortRange(args.range)

WithTarget ==
  /\ pc = "args" /\ args.target # NoTarget
  /\ \E addresses \in Resolutions :
       LET parsed == ParseTargets(args.target, addresses)
       IN \/ ~parsed.ok /\ Exit
          \/ /\ parsed.ok
             /\ options' = [targets |-> parsed.targets, ports |-> Ports,
                            settings |-> args.settings]
             /\ fields' = [target |-> parsed.targets[1].display, range |-> RangeOf(Ports),
                           settings |-> args.settings]
             /\ OpenWindow

WithoutTarget ==
  /\ pc = "args" /\ args.target = NoTarget
  /\ \/ (args.range # NoRange \/ args.settings.threads # AutoThreads) /\ Exit
     \/ /\ args.range = NoRange /\ args.settings.threads = AutoThreads
        /\ UNCHANGED <<options, fields>>
        /\ OpenWindow

-----------------------------------------------------------------------------
(* The window. *)

\* Mutant: the probe waits as long as the first pass.
VerifyTimeout_Fast(s) == s.fast
VerifyTimeout(s) == s.slow

Cfg(targets, ports, s) ==
  [targets |-> targets, ports |-> ports, threads |-> s.threads, fast |-> s.fast,
   slow |-> s.slow, probe |-> VerifyTimeout(s), verify |-> s.verify, stop |-> s.stop]

(* ScanOptions::cfg_builder, what a program without a window would scan. *)
CfgBuilder(o) ==
  [targets |-> o.targets, ports |-> o.ports, threads |-> o.settings.threads,
   fast |-> o.settings.fast, slow |-> o.settings.slow, probe |-> o.settings.slow,
   verify |-> o.settings.verify, stop |-> o.settings.stop]

(* parse_ports; a blank field is the whole range. *)
Whole(range) == range \in {WholeRange, BlankRange}
PortsOk == Whole(fields.range) \/ ValidRange(fields.range)
ParsePorts == IF Whole(fields.range) THEN DefaultPorts ELSE PortRange(fields.range)

(* start_port_scan: while busy, or with a range that does not parse, nothing. *)
StartPortScan(targets, text, addresses) ==
  IF ~busy /\ PortsOk
  THEN /\ scan' = Cfg(targets, ParsePorts, fields.settings)
       /\ asked' = [text |-> text, addresses |-> addresses, range |-> fields.range]
       /\ busy' = TRUE
  ELSE UNCHANGED <<scan, asked, busy>>

ManualScan ==
  /\ pc = "window" /\ ~busy /\ fields.target # Blank
  /\ \E addresses \in Resolutions :
       LET parsed == ParseTargets(fields.target, addresses)
       IN \/ parsed.ok /\ StartPortScan(parsed.targets, fields.target, addresses)
          \/ ~parsed.ok /\ UNCHANGED <<scan, asked, busy>>
  /\ UNCHANGED <<pc, args, fields, given, options, touches>>

(* The user, or the settings panel, changes a field. *)
Touch ==
  /\ pc = "window" /\ touches < MaxTouches
  /\ touches' = touches + 1
  /\ given' = <<>> /\ options' = NoOptions
  /\ UNCHANGED <<pc, args>>

(* A device's row: its addresses, of which the first goes to the field. *)
RowTarget(ip) == Target(ip, IF ip \in LinkLocal THEN 0 ELSE NoZone, Literal(ip))

RowScan(ips) ==
  /\ Touch
  /\ fields' = [fields EXCEPT !.target = Literal(ips[1])]
  /\ StartPortScan([i \in DOMAIN ips |-> RowTarget(ips[i])], [form |-> "row"], ips)

EditTarget(text) ==
  /\ Touch
  /\ fields' = [fields EXCEPT !.target = text]
  /\ UNCHANGED <<busy, scan, asked>>

Clamp(n, from, to) == IF n < from THEN from ELSE IF n > to THEN to ELSE n

(* The settings panel brings the timeouts it shows into its limits as soon *)
(* as it is drawn; a thread count is cut, and other text there is auto. *)
Drawn(s) == [s EXCEPT !.fast = Clamp(@, 10, 5000), !.slow = Clamp(@, 10, 30000)]

Changed(s) ==
  {s, [s EXCEPT !.verify = ~@], [s EXCEPT !.stop = ~@]}
    \union {[s EXCEPT !.threads = t] :
               t \in {AutoThreads, MaxThreads} \union
                     {FixedThreads(Clamp(n, 1, HardMaxThreads)) : n \in ThreadEdits}}

SettingsPanel ==
  /\ Touch
  /\ \/ \E s \in Changed(Drawn(fields.settings)) : fields' = [fields EXCEPT !.settings = s]
     \/ \E r \in RangeEdits :
          fields' = [fields EXCEPT !.range = r, !.settings = Drawn(@)]
  /\ UNCHANGED <<busy, scan, asked>>

(* The message of a job's end; the thread's configuration is gone by then. *)
JobEnds ==
  /\ pc = "window" /\ busy
  /\ busy' = FALSE /\ scan' = NoScan /\ asked' = NotAsked
  /\ UNCHANGED <<pc, args, fields, given, options, touches>>

Rediscover ==
  /\ pc = "window" /\ ~busy
  /\ busy' = TRUE
  /\ UNCHANGED <<pc, args, fields, scan, given, options, asked, touches>>

CommandLine == (\E a \in Arguments : ParseArg(a)) \/ WithTarget \/ WithoutTarget

Window ==
  \/ ManualScan \/ (\E ips \in Rows : RowScan(ips))
  \/ (\E text \in Edits : EditTarget(text)) \/ SettingsPanel
  \/ JobEnds \/ Rediscover

Next == CommandLine \/ Window \/ (pc = "exit" /\ UNCHANGED vars)

Spec == Init /\ [][Next]_vars

-----------------------------------------------------------------------------
(* The arguments that speak of a setting, and what one of them says of it. *)
Speakers ==
  [threads |-> {"--threads"}, fast |-> {"--timeout-fast", "--timeout"},
   slow |-> {"--timeout-slow", "--timeout"}, verify |-> {"--verify", "--no-verify"},
   stop |-> {"--first", "--all"}]

Word(a) ==
  CASE a.flag \in {"--verify", "--first"} -> TRUE
    [] a.flag \in {"--no-verify", "--all"} -> FALSE
    [] OTHER -> a.value

LastWord(flags, default) ==
  LET last == SelectLastInSeq(given, LAMBDA a : a.flag \in flags)
  IN IF last = 0 THEN default ELSE Word(given[last])

(***************************************************************************)
(* Each setting is what the last argument that speaks of it said, whatever *)
(* was said before of it and of others, and the default if none did;       *)
(* --timeout speaks of both timeouts (cli.rs:110-179).                     *)
(***************************************************************************)
LastWordCounts ==
  options # NoOptions =>
    \A f \in DOMAIN Speakers : options.settings[f] = LastWord(Speakers[f], Defaults[f])

Sockets(targets) == [i \in DOMAIN targets |-> Socket(targets[i], 0)]
Others(c) == [f \in DOMAIN c \ {"targets", "ports"} |-> c[f]]

(***************************************************************************)
(* As long as nobody has changed a field, the window scans within what its *)
(* command line said (gui.rs:110-127, :208-269): with all of its settings, *)
(* never an address it did not name, and every port of it there is.  An    *)
(* address that was given is accepted again from the text of its field.    *)
(***************************************************************************)
PrefilledScan ==
  options # NoOptions =>
    LET asGiven == CfgBuilder(options)
    IN /\ PortsOk
       /\ \A i \in DOMAIN given, addresses \in Resolutions :
            given[i].flag = "target" /\ given[i].value.form \in {"literal", "zoned"} =>
              ParseTargets(fields.target, addresses).ok
       /\ scan # NoScan =>
            /\ Others(scan) = Others(asGiven)
            /\ ToSet(Sockets(scan.targets)) \subseteq ToSet(Sockets(asGiven.targets))
            /\ ToSet(asGiven.ports) \ {0} \subseteq ToSet(scan.ports)

(***************************************************************************)
(* "Pre-fill a whole /24 sweep" (README.md:170), "Command-line             *)
(* targets/options are applied directly to the GUI's pre-filled scan"      *)
(* (README.md:20): the scan of a window whose fields nobody has changed    *)
(* tries every address and port its command line named, and no other.      *)
(***************************************************************************)
PrefilledWhole ==
  options # NoOptions /\ scan # NoScan =>
    LET asGiven == CfgBuilder(options)
    IN /\ ToSet(Sockets(scan.targets)) = ToSet(Sockets(asGiven.targets))
       /\ ToSet(scan.ports) = ToSet(asGiven.ports)

(* What a text means. *)
Meant(text, addresses) ==
  CASE text.form = "cidr" ->
         {<<4, a>> : a \in {a \in 0..(Shl(AddrBits) - 1) :
                             a \div Count(text.mask) = text.ip[2] \div Count(text.mask)}}
    [] text.form \in {"host", "row"} -> ToSet(addresses)
    [] OTHER -> {text.ip}

ScopeMeant(text) == IF text.form = "zoned" THEN text.zone ELSE 0

(* The documented order (ports.rs:3-7). *)
Rank(p) ==
  IF p = AdbPort THEN 1
  ELSE IF p \in Segment(1) THEN 2
  ELSE IF p \in Segment(4) THEN 4
  ELSE 3

Rising(v) == \A i, j \in DOMAIN v : i < j => v[i] < v[j]
Ranked(v) == \A i, j \in DOMAIN v : i < j => Rank(v[i]) <= Rank(v[j])

(***************************************************************************)
(* A scan tries exactly what was asked for when it was launched, whatever  *)
(* has become of the fields: every address the text means and every port   *)
(* of the range, the whole range in the documented order, and none of them *)
(* twice, unless a list of addresses it was given has one twice            *)
(* (target.rs:37-128, ports.rs:8-30).                                      *)
(***************************************************************************)
WorkExact ==
  scan # NoScan =>
    LET sockets == Sockets(scan.targets)
    IN /\ {s.ip : s \in ToSet(sockets)} = Meant(asked.text, asked.addresses)
       /\ \A s \in ToSet(sockets) : s.scope = ScopeMeant(asked.text)
       /\ asked.text.form \in {"host", "row"} => Len(sockets) = Len(asked.addresses)
       /\ asked.text.form \notin {"host", "row"} \/ IsInjective(asked.addresses) => IsInjective(sockets)
       /\ IsInjective(scan.ports)
       /\ IF Whole(asked.range)
          THEN ToSet(scan.ports) = 1..MaxPort /\ Ranked(scan.ports)
          ELSE ToSet(scan.ports) = asked.range[1]..asked.range[2] /\ Rising(scan.ports)
===========================================================================
