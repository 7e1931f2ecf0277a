------------------------------- MODULE Rules -------------------------------
(***************************************************************************)
(* The standing rules of the read path: the autoresponder, which answers a *)
(* prompt without asking a client (autoresponder.c), and the anomaly       *)
(* detector, which records and announces a crash signature (anomaly.c).    *)
(* Both keep a sliding window of the device's output and search a part of  *)
(* it at every chunk.                                                      *)
(*                                                                         *)
(* Every rule and every signature matches the same two bytes, "p" then     *)
(* "q", which a chunk boundary may separate.  A window holds positions of  *)
(* the device's stream, so that a match is known by the text it is of.     *)
(***************************************************************************)
EXTENDS Integers, Sequences, FiniteSets, SequencesExt, FiniteSetsExt

CONSTANTS
  Names,          \* names a rule may be given
  Signatures,     \* the patterns of the detector
  MaxRules,       \* SM_MAX_AUTORESPONDERS
  MaxFired,       \* SM_AR_MAX_FIRED_PER_FEED
  WindowCap,      \* SM_AR_WINDOW_BYTES, with the cell of its terminator
  TrimAbove,      \* the detector's window is trimmed above this length ...
  TrimKeep,       \* ... to this one
  Overlap,        \* how far back the detector searches
  Scratch,        \* bytes the detector's regular expression is given
  IncidentCap,    \* SM_MAX_ANOMALY_INCIDENTS
  MaxChunk,       \* the largest chunk of a read
  MaxStream,      \* bytes of the device considered
  MaxConfigs      \* requests that change the rules

\* The largest chunk leaves older text in the autoresponder's window, the trim
\* leaves the overlap, and the detector's store has room for an incident of every
\* signature when it has dropped a quarter.
ASSUME RulesAssumption ==
  /\ Names \cap Signatures = {} /\ IsFiniteSet(Signatures)
  /\ MaxRules \in Nat /\ MaxFired \in Nat \ {0}
  /\ WindowCap \in Nat /\ MaxChunk \in Nat /\ MaxChunk <= WindowCap - 2
  /\ TrimAbove \in Nat /\ TrimKeep \in Nat /\ TrimKeep <= TrimAbove
  /\ Overlap \in 1 .. TrimKeep /\ Scratch \in Nat
  /\ IncidentCap \in Nat /\ IncidentCap >= 4 /\ Cardinality(Signatures) <= IncidentCap - IncidentCap \div 4
  /\ MaxStream \in Nat /\ MaxConfigs \in Nat

VARIABLES
  stream,       \* history: what the device sent; "|" where the link was lost
  rules,        \* the rules in their order: name, once, enabled
  arWindow,     \* the autoresponder's window and its search_offset
  arOffset,
  anWindow,     \* the detector's window and its search_offset
  anOffset,
  cooling,      \* rules and signatures that fired less than a cooldown ago
  incidents,    \* the incident store: signature and text
  announced,    \* history: the incidents the clients were told of
  recorded,     \* history: the incidents ever recorded
  skipped,      \* history: positions no rule was there to see
  configs,      \* requests so far
  last          \* history: the last chunk, who could fire, and who did

arVars == <<rules, arWindow, arOffset, skipped>>
anVars == <<anWindow, anOffset, incidents, announced, recorded>>
vars == <<stream, arVars, anVars, cooling, configs, last>>

Alphabet == {"p", "q", "\n"}

NoFeed == [from |-> 1, upto |-> 0, ready |-> {}, fired |-> <<>>, reported |-> <<>>]

Init ==
  /\ stream = <<>> /\ rules = <<>> /\ skipped = {}
  /\ arWindow = <<>> /\ arOffset = 0
  /\ anWindow = <<>> /\ anOffset = 0
  /\ cooling = {} /\ incidents = <<>> /\ announced = <<>> /\ recorded = <<>>
  /\ configs = 0 /\ last = NoFeed

(***************************************************************************)
(* Searching a window.                                                     *)
(***************************************************************************)
Newest(s, n) == SubSeq(s, Len(s) - n + 1, Len(s))

\* Where the pattern matches in cells first .. to of a window over that text.
MatchesAt(window, text, first, to) ==
  {j \in first .. (to - 1) : text[window[j]] = "p" /\ text[window[j + 1]] = "q"}

\* The two positions of the stream that the leftmost match is made of.
Match(window, text, first, to) ==
  LET j == Min(MatchesAt(window, text, first, to)) IN <<window[j], window[j + 1]>>

(***************************************************************************)
(* The autoresponder.                                                      *)
(***************************************************************************)
RuleNames == {rules[i].name : i \in DOMAIN rules}

\* sm_autoresponder_add: a rule of that name is replaced where it stands, a new
\* one goes to the end of a table that has room.  Its cooldown starts over.
sm_autoresponder_add(name, once) ==
  LET rule == [name |-> name, once |-> once, enabled |-> TRUE]
  IN  /\ name \in RuleNames \/ Len(rules) < MaxRules
      /\ rules' = IF name \in RuleNames
                    THEN [i \in DOMAIN rules |-> IF rules[i].name = name THEN rule
                                                 ELSE rules[i]]
                    ELSE Append(rules, rule)
      /\ cooling' = cooling \ {name}

sm_autoresponder_remove(name) ==
  /\ \E i \in DOMAIN rules : rules[i].name = name /\ rules' = RemoveAt(rules, i)
  /\ cooling' = cooling \ {name}

\* window_append: the oldest cells make room, the search offset slides along.
window_append(positions) ==
  LET need == (Len(arWindow) + Len(positions)) - (WindowCap - 1)
      drop == IF need > 0 THEN need ELSE 0
  IN  [window |-> SubSeq(arWindow, drop + 1, Len(arWindow)) \o positions,
       offset |-> IF arOffset > drop THEN arOffset - drop ELSE 0]

\* The search starts at the offset, with nothing of the line before it.
LineStart_at_offset(window, text, offset) == offset + 1

\* The search starts a fixed distance before the offset, whatever the lines.
LineStart_fixed(window, text, offset) == IF offset > 3 THEN offset - 3 ELSE 1

\* The first cell of the line that the offset stands in.
LineStart(window, text, offset) ==
  LET breaks == {j \in 1 .. offset : text[window[j]] = "\n"}
  IN  IF breaks = {} THEN 1 ELSE Max(breaks) + 1

\* Who of the rules may fire: enabled, and not cooling down.
Ready == {rules[i].name : i \in {k \in DOMAIN rules :
                                   rules[k].enabled /\ rules[k].name \notin cooling}}

\* The names that fire, in the order of the table, at most MaxFired of them.
Firing(matched) ==
  LET after[k \in 0 .. Len(rules)] ==
        IF k = 0 THEN <<>>
        ELSE IF matched /\ rules[k].name \in Ready /\ Len(after[k - 1]) < MaxFired
          THEN Append(after[k - 1], rules[k].name) ELSE after[k - 1]
  IN  after[Len(rules)]

\* sm_autoresponder_feed: without a rule the chunk is not even kept.  Otherwise
\* it is appended and the text from the start of the line is searched for every
\* rule; a rule that fires cools down, and is disabled when it was for once.
\* The answer is written and announced by the caller.
sm_autoresponder_feed(text, positions) ==
  LET w == window_append(positions)
      n == Len(w.window)
      from == LineStart(w.window, text, w.offset)
      names == Firing(MatchesAt(w.window, text, from, n) # {})
  IN  IF rules = <<>>
        THEN [window |-> arWindow, offset |-> arOffset, rules |-> rules, fired |-> <<>>,
              skipped |-> skipped \cup ToSet(positions)]
        ELSE [window |-> w.window, offset |-> n,
              rules |-> [i \in DOMAIN rules |->
                           IF rules[i].name \in ToSet(names) /\ rules[i].once
                             THEN [rules[i] EXCEPT !.enabled = FALSE] ELSE rules[i]],
              fired |-> [i \in DOMAIN names |->
                           [name |-> names[i], text |-> Match(w.window, text, from, n)]],
              skipped |-> skipped]

(***************************************************************************)
(* The anomaly detector.                                                   *)
(***************************************************************************)

\* The trim at the start of sm_anomaly_feed.  With it the window never comes
\* near SM_MAX_ANOMALY_WINDOW, and growing it always makes room for a chunk.
Trimmed ==
  LET removed == Len(anWindow) - TrimKeep
  IN  IF Len(anWindow) > TrimAbove
        THEN [window |-> Newest(anWindow, TrimKeep),
              offset |-> IF anOffset > removed THEN anOffset - removed ELSE 0]
        ELSE [window |-> anWindow, offset |-> anOffset]

\* Where the search starts when there is no overlap with what was searched.
SearchStart_no_overlap(offset) == offset + 1

\* Where the search starts: Overlap cells before the offset.
SearchStart(offset) == IF offset > Overlap THEN offset - Overlap + 1 ELSE 1

\* The store with one more incident; when it is full a quarter goes first.
Stored(store, incident) ==
  IF Len(store) >= IncidentCap
    THEN Append(SubSeq(store, IncidentCap \div 4 + 1, Len(store)), incident)
    ELSE Append(store, incident)

\* The store with all the incidents of a chunk.
StoredAll(store, new) ==
  LET after[k \in 0 .. Len(new)] == IF k = 0 THEN store ELSE Stored(after[k - 1], new[k])
  IN  after[Len(new)]

\* The incidents the broker announces: what the store has grown by.
Announcing_by_growth(store, new) == SubSeq(store, Len(incidents) + 1, Len(store))

\* The incidents the broker announces: the new ones at the end of the store.
Announcing(store, new) == SubSeq(store, Len(store) - Len(new) + 1, Len(store))

\* sm_anomaly_feed: the chunk is appended and Scratch cells from the start of
\* the search are matched against every signature that is not cooling down.
sm_anomaly_feed(text, positions) ==
  LET w == Trimmed
      window == w.window \o positions
      from == SearchStart(w.offset)
      to == IF Len(window) > from + Scratch - 1 THEN from + Scratch - 1 ELSE Len(window)
      hit == MatchesAt(window, text, from, to) # {}
      names == SetToSeq({s \in Signatures : hit /\ s \notin cooling})
      new == [i \in DOMAIN names |-> [name |-> names[i],
                                      text |-> Match(window, text, from, to)]]
  IN  [window |-> window, new |-> new, incidents |-> StoredAll(incidents, new)]

(***************************************************************************)
(* The broker around them.                                                 *)
(***************************************************************************)
NamesIn(s) == {s[i].name : i \in DOMAIN s}

\* process_link_chunk of the bytes the device sends next: new incidents are
\* announced (what a critical one does to pending expects is Expect's), and then
\* the rules answer.
process_link_chunk(bytes) ==
  LET text == stream \o bytes
      positions == [i \in DOMAIN bytes |-> Len(stream) + i]
      an == sm_anomaly_feed(text, positions)
      ar == sm_autoresponder_feed(text, positions)
  IN  /\ Len(text) <= MaxStream
      /\ stream' = text
      /\ anWindow' = an.window /\ anOffset' = Len(an.window)
      /\ incidents' = an.incidents
      /\ announced' = announced \o Announcing(an.incidents, an.new)
      /\ recorded' = recorded \o an.new
      /\ arWindow' = ar.window /\ arOffset' = ar.offset
      /\ rules' = ar.rules /\ skipped' = ar.skipped
      /\ cooling' = cooling \cup NamesIn(an.new) \cup NamesIn(ar.fired)
      /\ last' = [from |-> Len(stream) + 1, upto |-> Len(text),
                  ready |-> Ready \cup (Signatures \ cooling),
                  fired |-> ar.fired, reported |-> an.new]
      /\ UNCHANGED configs

\* handle_configure_autoresponder, tool_serial_add_autoresponder.
handle_configure_autoresponder ==
  /\ configs < MaxConfigs /\ configs' = configs + 1
  /\ \E name \in Names :
       \/ \E once \in BOOLEAN : sm_autoresponder_add(name, once)
       \/ sm_autoresponder_remove(name)
  /\ UNCHANGED <<stream, arWindow, arOffset, skipped, anVars, last>>

\* sm_anomaly_add_pattern of a name the detector has: the signature is replaced
\* and may fire at once (handle_configure_anomaly, tool_serial_add_watchdog).
sm_anomaly_add_pattern ==
  /\ configs < MaxConfigs /\ configs' = configs + 1
  /\ \E s \in Signatures : s \in cooling /\ cooling' = cooling \ {s}
  /\ UNCHANGED <<stream, arVars, anVars, last>>

\* The windows outlive the link.
link_bring_up_keeps_windows ==
  /\ Len(stream) < MaxStream /\ stream # <<>>
  /\ stream' = Append(stream, "|")
  /\ last' = NoFeed
  /\ UNCHANGED <<arVars, anVars, cooling, configs>>

\* link_bring_up after a lost link or a suspend: both windows start over
\* (sm_autoresponder_reset_window, sm_anomaly_reset_window).
link_bring_up ==
  /\ Len(stream) < MaxStream /\ stream # <<>>
  /\ stream' = Append(stream, "|")
  /\ arWindow' = <<>> /\ arOffset' = 0
  /\ anWindow' = <<>> /\ anOffset' = 0
  /\ last' = NoFeed
  /\ UNCHANGED <<rules, skipped, incidents, announced, recorded, cooling, configs>>

\* The wall clock moves past the cooldown of a rule or a signature.
CooldownPasses(x) ==
  /\ x \in cooling /\ cooling' = cooling \ {x}
  /\ UNCHANGED <<stream, arVars, anVars, configs, last>>

Next ==
  \/ \E n \in 1 .. MaxChunk : \E bytes \in [1 .. n -> Alphabet] : process_link_chunk(bytes)
  \/ handle_configure_autoresponder
  \/ sm_anomaly_add_pattern
  \/ link_bring_up
  \/ \E x \in Names \cup Signatures : CooldownPasses(x)

Spec == Init /\ [][Next]_vars

(***************************************************************************)
(* Properties.                                                             *)
(***************************************************************************)

TypeOK ==
  /\ stream \in Seq(Alphabet \cup {"|"}) /\ Len(stream) <= MaxStream
  /\ Len(rules) <= MaxRules /\ Len(arWindow) < WindowCap
  /\ arOffset <= Len(arWindow) /\ anOffset <= Len(anWindow)
  /\ Len(incidents) <= IncidentCap /\ cooling \subseteq Names \cup Signatures

\* The occurrences of the pattern that the last chunk completed.
Completed == {i \in last.from - 1 .. last.upto - 1 :
                i > 0 /\ stream[i] = "p" /\ stream[i + 1] = "q"}

\* What fires is in the device's output: no rule and no signature matches text
\* put together of what was sent before and after a lost link (link_bring_up).
\* A rule that is installed after a time without rules is excepted: what came
\* meanwhile is missing from the window (sm_autoresponder_feed returns early).
MatchIsReal ==
  /\ \A i \in DOMAIN last.reported :
       last.reported[i].text[2] = last.reported[i].text[1] + 1
  /\ \A i \in DOMAIN last.fired :
       \/ last.fired[i].text[2] = last.fired[i].text[1] + 1
       \/ last.fired[i].text[1] + 1 \in skipped

\* A prompt is answered as soon as it is complete, wherever the reads cut it,
\* by every rule that is enabled and not cooling down, unless as many rules as
\* one chunk may fire did fire (sm_autoresponder_feed looks back to the start
\* of the line).
NoPromptMissed ==
  \A name \in last.ready \cap Names :
    (Completed \ {i \in Completed : {i, i + 1} \cap skipped # {}}) # {} =>
      name \in NamesIn(last.fired) \/ Len(last.fired) = MaxFired

\* A rule does not answer text of a line that was complete before the chunk
\* came, however long ago it cooled down (sm_autoresponder_feed).  A line end
\* that came while there was no rule is not in the window.
NoStaleAnswer ==
  \A i \in DOMAIN last.fired :
    \A j \in last.fired[i].text[2] + 1 .. last.from - 1 : stream[j] = "\n" => j \in skipped

\* A crash signature is reported with the chunk that completes it, wherever the
\* reads cut it and however the window was trimmed (sm_anomaly_feed), unless the
\* chunk and the overlap before it are longer than what is searched.
NoPanicMissed ==
  Completed # {} /\ Overlap + (last.upto - last.from + 1) <= Scratch =>
    last.ready \cap Signatures \subseteq NamesIn(last.reported)

\* What fires is real and current, and what should fire does: the four above
\* pull against each other, for a window that forgets more (a trim, a lost link,
\* a line start) risks the misses and one that keeps more the false matches.
MatchesExact == MatchIsReal /\ NoPromptMissed /\ NoStaleAnswer /\ NoPanicMissed

\* Clients are told of exactly the incidents that are recorded, in order, also
\* when the store has to drop old ones (the broker takes them from its end).
EveryIncidentAnnounced == announced = recorded

\* The same text does not set off a rule or a signature twice: the comment in
\* sm_autoresponder_feed, 'a still-visible "login:" cannot rematch after
\* cooldown when a new byte arrives'.
FiresOncePerText ==
  \A i \in DOMAIN last.fired : last.fired[i].text[2] >= last.from
=============================================================================
