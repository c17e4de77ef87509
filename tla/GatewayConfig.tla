--------------------------- MODULE GatewayConfig ---------------------------
(***************************************************************************)
(* Config::loadFromString and GatewayConfig::from: from the lines of a     *)
(* configuration file to a configuration, or to a refusal.  A key is the   *)
(* sequence of its words ("route.1.prefix" is <<"route", 1, "prefix">>), a *)
(* route's name a number, a line, trimmed and without its comment, is      *)
(*   [is |-> "section", key]   [is |-> "entry", key, value]                *)
(*   [is |-> "blank"]   [is |-> "noEquals"]   [is |-> "noKey"]             *)
(* and a value what it parses to, as a number, a text and a list:          *)
(*   [num, text, list], the list of endpoints [valid, port].               *)
(***************************************************************************)
EXTENDS Integers, Sequences, SequencesExt, Ordering

CONSTANTS
  MaxPort, MaxInt, MaxUnsigned, MaxMillis, MaxSize, \* of the integer types
  Defaults  \* of the settings, by their names

ASSUME WidthAssumption ==
  /\ MaxPort \in Nat \ {0} /\ MaxPort < MaxSize
  /\ MaxInt < MaxUnsigned /\ MaxUnsigned < MaxMillis /\ MaxMillis < MaxSize

Unparsable == -1

\* A map in which key has the value.
Assigned(map, key, value) ==
  [k \in DOMAIN map \cup {key} |-> IF k = key THEN value ELSE map[k]]

\* A line after those that acc stands for; the last value of a key counts.
LoadLine(acc, line) ==
  IF ~acc.ok THEN acc
  ELSE CASE line.is = "blank" -> acc
         [] line.is = "section" -> [acc EXCEPT !.section = line.key]
         [] line.is = "entry" ->
              [acc EXCEPT !.values = Assigned(@, acc.section \o line.key, line.value)]
         [] line.is \in {"noEquals", "noKey"} -> [acc EXCEPT !.ok = FALSE]

LoadFromString(lines) ==
  FoldLeft(LoadLine, [ok |-> TRUE, section |-> <<>>, values |-> <<>>], lines)

\* Mutant: zero passes wherever it is written.
InRangeZero(n, max, allowZero) == n # Unparsable /\ n <= max

InRange(n, max, allowZero) == n # Unparsable /\ n <= max /\ (allowZero \/ n # 0)

\* readUnsigned, readDuration, parsePositiveInt: the value of a setting.
Setting(values, base, name) ==
  LET key == Append(base, name) IN
  IF key \in DOMAIN values THEN values[key].num ELSE Defaults[name]

MaxBool == 1 \* parseBool gives false or true

\* The settings of the gateway, their types, and whether they may be zero.
Settings ==
  LET s(section, name, max, zero) ==
        [section |-> section, name |-> name, max |-> max, zero |-> zero]
  IN {s("gateway", "listen_port", MaxPort, FALSE), s("gateway", "workers", MaxInt, FALSE),
      s("gateway", "header_limit", MaxSize, FALSE), s("gateway", "body_limit", MaxSize, FALSE),
      s("gateway", "graceful_shutdown_ms", MaxMillis, FALSE),
      s("event_loop", "ring_entries", MaxUnsigned, FALSE),
      s("event_loop", "sqpoll", MaxBool, TRUE),
      s("event_loop", "sqpoll_idle_ms", MaxUnsigned, TRUE),
      s("event_loop", "registered_buffers_count", MaxSize, TRUE),
      s("event_loop", "registered_buffer_size", MaxSize, FALSE),
      s("event_loop", "pending_queue_capacity", MaxSize, FALSE),
      s("event_loop", "pending_submission_capacity", MaxSize, FALSE)}

\* The settings of a route.
RouteSettings ==
  LET s(name, max, zero) == [name |-> name, max |-> max, zero |-> zero]
  IN {s("connect_timeout_ms", MaxMillis, FALSE), s("response_timeout_ms", MaxMillis, FALSE),
      s("max_connections_per_worker", MaxSize, FALSE),
      s("max_idle_per_worker", MaxSize, TRUE), s("idle_timeout_ms", MaxMillis, FALSE)}

ASSUME DefaultsAssumption ==
  /\ \A s \in Settings : Defaults[s.name] \in Nat
  /\ \A s \in RouteSettings : Defaults[s.name] \in Nat

ValidEndpoint(e) == e.valid /\ InRange(e.port, MaxPort, FALSE)

ValidUpstreams(list) == list # <<>> /\ \A e \in Range(list) : ValidEndpoint(e)

\* A route is there when a key gives it a prefix.
RouteNames(values) ==
  {key[2] : key \in {k \in DOMAIN values :
                       Len(k) = 3 /\ k[1] = "route" /\ k[3] = "prefix"}}

RouteOf(values, name) ==
  LET base == <<"route", name>> IN
  [name |-> name, prefix |-> values[base \o <<"prefix">>].text,
   upstreams |-> values[base \o <<"upstreams">>].list,
   maxConnections |-> Setting(values, base, "max_connections_per_worker"),
   maxIdle |-> Setting(values, base, "max_idle_per_worker")]

ValidRoute(values, name) ==
  LET base == <<"route", name>>
      prefix == values[base \o <<"prefix">>].text
  IN /\ prefix # <<>> /\ prefix[1] = "/"
     /\ \A other \in RouteNames(values) \ {name} :
          values[<<"route", other, "prefix">>].text # prefix
     /\ base \o <<"upstreams">> \in DOMAIN values
     /\ ValidUpstreams(values[base \o <<"upstreams">>].list)
     /\ \A s \in RouteSettings : InRange(Setting(values, base, s.name), s.max, s.zero)
     /\ Setting(values, base, "max_idle_per_worker")
          <= Setting(values, base, "max_connections_per_worker")

\* listen_ip has the number 1 when it is an IPv4 address.
Valid(values) ==
  /\ <<"gateway", "listen_ip">> \in DOMAIN values
  /\ values[<<"gateway", "listen_ip">>].num = 1
  /\ \A s \in Settings : InRange(Setting(values, <<s.section>>, s.name), s.max, s.zero)
  /\ RouteNames(values) # {}
  /\ \A name \in RouteNames(values) : ValidRoute(values, name)

\* The routes are in the order of their names.
From(values) ==
  [settings |-> [n \in {s.name : s \in Settings} |->
                   LET s == CHOOSE t \in Settings : t.name = n
                   IN Setting(values, <<s.section>>, n)],
   routes |-> LET names == Sorted(RouteNames(values), <)
              IN [i \in DOMAIN names |-> RouteOf(values, names[i])]]
=============================================================================
