------------------------------- MODULE Surface -------------------------------
(***************************************************************************)
(* The stack that demos/13_osc_surface.py drives end to end: the controls  *)
(* that clients/touchosc/build_layout.py generates, a finger that moves    *)
(* them and resends a datagram until the host shows it, a wire that may    *)
(* lose datagrams, SoftcutOSC's table of handlers, and the parameters of   *)
(* the NornsSoftcut host.                                                  *)
(*                                                                         *)
(* A control is a record: the address it sends to, its constant arguments, *)
(* and, unless it is a button that fires once, the range onto which the    *)
(* position of the control is scaled.                                      *)
(* Values are integers in a unit fit for the parameter (a level 0..1, a    *)
(* slew in milliseconds, an offset in samples), a control is moved to      *)
(* either end of its travel, and heads stay where they are put.            *)
(***************************************************************************)
EXTENDS Integers, Sequences

CONSTANTS
  NVoices,    \* Options.voices and the host's
  MaxTime,    \* Options.max_time
  RateSpan,   \* Options.rate
  MaxTouches, \* bound: controls touched
  MaxAny, Few, \* bounds: more than MaxAny only of controls in Few
  MaxSends    \* bound: datagrams sent for a touch

ASSUME ConstantsAssumption ==
  /\ NVoices \in 1 .. 6 /\ MaxTime \in Nat \ {0} /\ RateSpan \in Nat \ {0}
  /\ MaxTouches \in Nat /\ MaxAny \in Nat /\ MaxSends \in Nat

Columns == 0 .. NVoices - 1
Voices == 1 .. NVoices
Param(s) == <<"/set/param/cut/", s>>
Set(s) == <<"/set/", s>>
Buf(s) == <<"/softcut/buffer/", s>>
Top(s) == <<"/", s>>

-----------------------------------------------------------------------------
(* build_layout.py *)

\* A row or strip <<address, low, high>>: a control for every voice. Controls of
\* two pages that send alike and have the same range are one control here.
Cell(row, v) == [address |-> row[1], args |-> <<v>>, span |-> <<row[2], row[3]>>]
param_page(rows) == {Cell(row, v) : row \in rows, v \in Columns}

Trigger(address, args) == [address |-> address, args |-> args, span |-> <<>>]

mix_page ==
  param_page(
    {<<Set("level/cut"), 0, 1>>, <<Set("pan/cut"), -1, 1>>, <<Param("rate"), -RateSpan, RateSpan>>,
     <<Param("play_flag"), 0, 1>>, <<Param("rec_flag"), 0, 1>>, <<Param("loop_flag"), 0, 1>>})

loop_page ==
  param_page(
    {<<Param("loop_flag"), 0, 1>>, <<Param("loop_start"), 0, MaxTime>>, <<Param("loop_end"), 0, MaxTime>>,
     <<Param("position"), 0, MaxTime>>, <<Param("rate"), -RateSpan, RateSpan>>,
     <<Param("rate_slew_time"), 0, 1000>>, <<Param("fade_time"), 0, 1000>>})

rec_page ==
  param_page(
    {<<Param("rec_flag"), 0, 1>>, <<Param("play_flag"), 0, 1>>, <<Param("rec_once"), 0, 1>>,
     <<Param("rec_level"), 0, 1>>, <<Param("pre_level"), 0, 1>>, <<Param("rec_offset"), -480, 480>>,
     <<Param("recpre_slew_time"), 0, 1000>>})

\* Either filter: its cutoff in Hz, its rq in tenths, and its gains.
filter_page(fc, top, rq, gains) ==
  param_page({<<Param(fc), 10, top>>, <<Param(rq), 1, 40>>} \union {<<Param(s), 0, 1>> : s \in gains})
pre_filter_page ==
  filter_page("pre_filter_fc", 16000, "pre_filter_rq",
    {"pre_filter_lp", "pre_filter_hp", "pre_filter_bp", "pre_filter_br", "pre_filter_dry", "pre_filter_fc_mod"})
post_filter_page ==
  filter_page("post_filter_fc", 12000, "post_filter_rq",
    {"post_filter_lp", "post_filter_hp", "post_filter_bp", "post_filter_br", "post_filter_dry"})

\* The cells of a grid of voices by voices, <<row, column>>.
matrix == Columns \X Columns

routing_page ==
  LET feedback(src, dst) == [address |-> Set("level/cut_cut"), args |-> <<src, dst>>, span |-> <<0, 1>>]
      in_cut(v) == [address |-> Set("level/in_cut"), args |-> <<0, v>>, span |-> <<0, 1>>]
  IN  param_page({<<Set("level/cut"), 0, 1>>, <<Set("pan/cut"), -1, 1>>, <<Set("enabled/cut"), 0, 1>>})
      \union {in_cut(v) : v \in Columns}
      \union {Trigger(Param("buffer"), <<v, b>>) : b \in 0 .. 1, v \in Columns}
      \union {feedback(m[1], m[2]) : m \in matrix}

\* The readouts, which send nothing, are left out, and so is the blank diagonal.
sync_page ==
  LET sync(dst, src) == Trigger(Param("voice_sync"), <<dst, src, 0>>)
  IN  param_page({<<Param("phase_quant"), 0, 4>>, <<Param("phase_offset"), -1, 1>>})
      \union {Trigger(Top(s), <<>>) : s \in {"poll/start/cut/phase", "poll/stop/cut/phase"}}
      \union {sync(m[1], m[2]) : m \in {m \in matrix : m[1] # m[2]}}

system_page ==
  {Trigger(Buf("clear"), <<>>), Trigger(Buf("clear_region"), <<0, MaxTime>>),
   Trigger(Buf("read_mono"), <<"read_file", 0, 0, -1, 0, 0>>),
   Trigger(Buf("read_stereo"), <<"read_file", 0, 0, -1>>),
   Trigger(Buf("write_mono"), <<"write_file", 0, -1, 0>>),
   Trigger(Buf("write_stereo"), <<"write_file", 0, -1>>),
   Trigger(Top("softcut/reset"), <<>>), Trigger(Top("hello"), <<>>), Trigger(Top("quit"), <<>>)}
  \union UNION {{Trigger(Buf("clear_channel"), <<b>>), Trigger(Buf("clear_region_channel"), <<b, 0, MaxTime>>)} :
                b \in 0 .. 1}

\* build: every page of the pager.
build ==
  mix_page \union loop_page \union rec_page \union pre_filter_page \union post_filter_page
    \union routing_page \union sync_page \union system_page

ASSUME FewAssumption == Few \subseteq build

Movable(c) == c.span # <<>>
Cells == {c \in build : Movable(c)}

\* What the layout takes for the engine's defaults.
VOICE_DEFAULTS ==
  LET ones == {Set("level/cut"), Set("level/in_cut"), Param("rate"), Param("rate_slew_time"),
               Param("recpre_slew_time"), Param("pre_filter_fc_mod"), Param("pre_filter_lp"),
               Param("post_filter_dry")}
      zeros == {Set("pan/cut"), Param("loop_start"), Param("loop_end"), Param("position"), Param("rec_level"),
                Param("pre_level"), Param("phase_quant"), Param("phase_offset"), Param("pre_filter_hp"),
                Param("pre_filter_bp"), Param("pre_filter_br"), Param("pre_filter_dry"),
                Param("post_filter_lp"), Param("post_filter_hp"), Param("post_filter_bp"),
                Param("post_filter_br")}
      others == {Param("fade_time"), Param("rec_offset"), Param("pre_filter_fc"), Param("pre_filter_rq"),
                 Param("post_filter_fc"), Param("post_filter_rq")}
  IN  [a \in ones \union zeros \union others |->
         CASE a \in ones -> 1 [] a \in zeros -> 0
           [] a = Param("fade_time") -> 100 [] a = Param("rec_offset") -> -8
           [] a = Param("pre_filter_fc") -> 16000 [] a = Param("pre_filter_rq") -> 40
           [] a = Param("post_filter_fc") -> 12000 [] a = Param("post_filter_rq") -> 40]

\* position_of: the value that a control stands for before it is touched; one
\* without a default is at the bottom of its travel.
position_of(c) ==
  CASE c.address \notin DOMAIN VOICE_DEFAULTS -> c.span[1]
    [] c.address \in DOMAIN VOICE_DEFAULTS ->
         LET d == VOICE_DEFAULTS[c.address]
         IN  IF d < c.span[1] THEN c.span[1] ELSE IF d > c.span[2] THEN c.span[2] ELSE d

\* scaled_arg and send: what the control sends at x of its travel.
\* Mutant: the high end is taken for the length of the range.
MessageUnscaled(c, x) ==
  [address |-> c.address,
   args |-> IF Movable(c) THEN Append(c.args, c.span[1] + x * c.span[2]) ELSE c.args]

Message(c, x) ==
  [address |-> c.address,
   args |-> IF Movable(c) THEN Append(c.args, c.span[1] + x * (c.span[2] - c.span[1])) ELSE c.args]

-----------------------------------------------------------------------------
(* NornsSoftcut and its voices *)

_FLOAT_PARAMS ==
  LET same == {"rate", "level", "pan", "rec_level", "pre_level", "loop_start", "loop_end", "fade_time",
               "rec_offset", "rate_slew_time", "phase_quant", "phase_offset", "pre_filter_fc",
               "pre_filter_fc_mod", "pre_filter_rq", "pre_filter_lp", "pre_filter_hp", "pre_filter_bp",
               "pre_filter_br", "pre_filter_dry", "post_filter_fc", "post_filter_rq", "post_filter_lp",
               "post_filter_hp", "post_filter_bp", "post_filter_br", "post_filter_dry"}
  IN  [n \in same \union {"recpre_slew_time"} |-> IF n \in same THEN n ELSE "rec_pre_slew_time"]
_BOOL_PARAMS == [n \in {"play", "rec", "loop", "rec_once"} |-> n]

\* The values that Engine's mixer keeps for a voice, apart from the DSP.
MixAttrs == {"level", "pan", "input_gain"}
FloatAttrs == {_FLOAT_PARAMS[m] : m \in DOMAIN _FLOAT_PARAMS}
Attrs == FloatAttrs \union DOMAIN _BOOL_PARAMS \union MixAttrs \union {"position"}

\* The initial values of a Voice's members; every other one is 0 or false.
Default(a) ==
  CASE a \in {"level", "input_gain", "rate", "rate_slew_time", "rec_pre_slew_time", "pre_filter_fc_mod",
              "pre_filter_lp", "post_filter_dry"} -> 1
    [] a = "fade_time" -> 100 [] a = "rec_offset" -> -8 [] a = "pre_filter_fc" -> 16000
    [] a = "post_filter_fc" -> 12000 [] a \in {"pre_filter_rq", "post_filter_rq"} -> 40
    [] OTHER -> 0
Fresh == [a \in Attrs |-> Default(a)]

\* A new host: its voices, the feedback gains, and every voice on buffer 1.
NewHost ==
  [voice |-> [v \in Voices |-> Fresh], feedback |-> [p \in Voices \X Voices |-> 0],
   assign |-> [v \in Voices |-> 1], content |-> [b \in 1 .. 2 |-> "old"]]

\* An operation on the host is the set of the hosts it may leave: empty if it
\* raises.
If(cond, h) == IF cond THEN {h} ELSE {}

\* The generated setters; rec off cancels rec_once, rec_once on sets rec.
SetFlag(r, a, on) ==
  [r EXCEPT ![a] = on, !["rec"] = IF a = "rec_once" /\ on = 1 THEN 1 ELSE IF a = "rec" THEN on ELSE @,
            !["rec_once"] = IF a = "rec" /\ on = 0 THEN 0 ELSE IF a = "rec_once" THEN on ELSE @]
SetParam(h, method, v, x) ==
  IF method \in DOMAIN _BOOL_PARAMS
  THEN [h EXCEPT !.voice[v] = SetFlag(@, method, IF x = 0 THEN 0 ELSE 1)]
  ELSE [h EXCEPT !.voice[v][IF method = "position" THEN "position" ELSE _FLOAT_PARAMS[method]] = x]

buffer(h, v, b) == If(v \in Voices /\ b \in 1 .. 2, [h EXCEPT !.assign[v] = b])
voice_sync(h, dst, src, offset) ==
  If({dst, src} \subseteq Voices, [h EXCEPT !.voice[dst].position = h.voice[src].position + offset])
level_cut_cut(h, src, dst, x) == If({dst, src} \subseteq Voices, [h EXCEPT !.feedback[<<src, dst>>] = x])

\* Voice.reset restores the DSP and its read-backs, then every voice is put on
\* buffer 1; the mixer's values, the feedback and the samples stay.
ResetVoice(r) == [a \in Attrs |-> IF a \in MixAttrs THEN r[a] ELSE Fresh[a]]
reset(h) == [h EXCEPT !.voice = [v \in Voices |-> ResetVoice(@[v])], !.assign = [v \in Voices |-> 1]]

Fill(h, bs, what) ==
  If(bs \subseteq 1 .. 2, [h EXCEPT !.content = [b \in 1 .. 2 |-> IF b \in bs THEN what ELSE @[b]]])

-----------------------------------------------------------------------------
(* SoftcutOSC *)

_PARAM_MAP ==
  LET same == {"rate", "loop_start", "loop_end", "fade_time", "rec_level", "pre_level", "rec_once",
               "rec_offset", "position", "recpre_slew_time", "rate_slew_time", "phase_quant", "phase_offset",
               "pre_filter_fc", "pre_filter_fc_mod", "pre_filter_rq", "pre_filter_lp", "pre_filter_hp",
               "pre_filter_bp", "pre_filter_br", "pre_filter_dry", "post_filter_fc", "post_filter_rq",
               "post_filter_lp", "post_filter_hp", "post_filter_bp", "post_filter_br", "post_filter_dry"}
  IN  [s \in same \union {"loop_flag", "rec_flag", "play_flag"} |->
         CASE s \in same -> s [] s = "loop_flag" -> "loop" [] s = "rec_flag" -> "rec" [] s = "play_flag" -> "play"]

\* The handlers that take a voice and a value, by the method they call.
ByVoice ==
  [a \in {Param(s) : s \in DOMAIN _PARAM_MAP} \union {Set("level/cut"), Set("pan/cut"), Set("enabled/cut")} |->
     CASE a = Set("level/cut") -> "level" [] a = Set("pan/cut") -> "pan" [] a = Set("enabled/cut") -> "play"
       [] OTHER -> _PARAM_MAP[a[2]]]

\* Those that change nothing of the host that is modelled here.
Quiet ==
  {Top(s) : s \in {"hello", "goodbye", "quit", "poll/start/cut/phase", "poll/stop/cut/phase", "poll/start/vu",
                   "poll/stop/vu"}}
  \union {Param("level_slew_time"), Param("pan_slew_time"), Buf("write_mono"), Buf("write_stereo")}

\* Mutant: the wire's 0-based voice is passed on.
_v_fZeroBased(h, method, args) == If(args[1] \in Voices, SetParam(h, method, args[1], args[2]))
_v_f(h, method, args) == If(args[1] + 1 \in Voices, SetParam(h, method, args[1] + 1, args[2]))

\* Mutant: the input channel is taken for the voice.
_on_in_cutFirst(h, args) == {[h EXCEPT !.voice[args[1] + 1].input_gain = args[3]]}
_on_in_cut(h, args) == If(args[2] + 1 \in Voices, [h EXCEPT !.voice[args[2] + 1].input_gain = args[3]])

\* The handler of the message's address, called with its arguments.
_build_handlers(h, address, args) ==
  CASE address \in DOMAIN ByVoice -> _v_f(h, ByVoice[address], args)
    [] address = Set("level/cut_cut") -> level_cut_cut(h, args[1] + 1, args[2] + 1, args[3])
    [] address = Set("level/in_cut") -> _on_in_cut(h, args)
    [] address = Param("voice_sync") -> voice_sync(h, args[1] + 1, args[2] + 1, args[3])
    [] address = Param("buffer") -> buffer(h, args[1] + 1, args[2] + 1)
    [] address = Buf("read_mono") -> Fill(h, {args[6] + 1}, "file")
    [] address = Buf("read_stereo") -> Fill(h, {1, 2}, "file")
    [] address \in {Buf("clear"), Buf("clear_region")} -> Fill(h, {1, 2}, "silence")
    [] address \in {Buf("clear_channel"), Buf("clear_region_channel")} -> Fill(h, {args[1] + 1}, "silence")
    [] address = Top("softcut/reset") -> {reset(h)}
    [] address \in Quiet -> {h}
    [] OTHER -> {}

-----------------------------------------------------------------------------
(* The finger, the wire and the server *)

VARIABLES
  finger,   \* the control being touched and what is wanted, or Nothing
  sends,    \* datagrams sent for it
  touches,  \* controls touched so far
  wire,     \* datagrams on their way
  host,     \* the NornsSoftcut
  failed,   \* a datagram had no handler, or its handler raised
  touched,  \* the values that controls touched so far may have changed
  shown,    \* those that the host was seen to take, and what it took
  stirred   \* those that a reset or a sync may move, or has moved, that was
            \* sent since the wire was last empty

surfaceVars == <<finger, sends, touches, wire, host, failed, touched, shown, stirred>>

Nothing == <<>>

\* The value of the host that a control moves, as <<"voice", v, attribute>> or
\* <<"feedback", src, dst>>.
Key(c) ==
  CASE c.address \in DOMAIN ByVoice ->
         <<"voice", c.args[1] + 1,
           IF ByVoice[c.address] = "recpre_slew_time" THEN "rec_pre_slew_time" ELSE ByVoice[c.address]>>
    [] c.address = Set("level/in_cut") -> <<"voice", c.args[2] + 1, "input_gain">>
    [] c.address = Set("level/cut_cut") -> <<"feedback", c.args[1] + 1, c.args[2] + 1>>
ValueAt(h, k) == IF k[1] = "voice" THEN h.voice[k[2]][k[3]] ELSE h.feedback[<<k[2], k[3]>>]

\* What the message of a control may change, other than a reset: rec and
\* rec_once move each other.
Affects(c) ==
  CASE Movable(c) /\ c.address \in {Param("rec_flag"), Param("rec_once")} ->
         {<<"voice", c.args[1] + 1, a>> : a \in {"rec", "rec_once"}}
    [] Movable(c) /\ c.address \notin {Param("rec_flag"), Param("rec_once")} -> {Key(c)}
    [] c.address = Param("voice_sync") -> {<<"voice", c.args[1] + 1, "position">>}
    [] OTHER -> {}

\* The values that the message of a button moves when handled.
Keys == {Key(c) : c \in Cells}
Undoes(message) ==
  CASE message.address = Top("softcut/reset") -> {k \in Keys : k[1] = "voice" /\ k[3] \notin MixAttrs}
    [] message.address = Param("voice_sync") -> {<<"voice", message.args[1] + 1, "position">>}
    [] OTHER -> {}

Without(f, keys) == [k \in DOMAIN f \ keys |-> f[k]]
With(f, key, x) == [k \in DOMAIN f \union {key} |-> IF k = key THEN x ELSE f[k]]

SurfaceInit ==
  /\ finger = Nothing /\ sends = 0 /\ touches = 0 /\ wire = <<>>
  /\ host = NewHost /\ failed = FALSE
  /\ touched = {} /\ shown = <<>> /\ stirred = {}

\* Surface.touch begins: a control that has a value waits for the host to show
\* it, a button is sent once.
TouchControl(c, x) ==
  /\ finger = Nothing /\ touches < MaxTouches
  /\ touches' = touches + 1
  /\ finger' = [message |-> Message(c, x), waits |-> Movable(c),
                key |-> IF Movable(c) THEN Key(c) ELSE <<>>]
  /\ sends' = 0
  /\ touched' = touched \union Affects(c)
  /\ shown' = IF Movable(c) THEN Without(shown, Affects(c)) ELSE shown
  /\ UNCHANGED <<wire, host, failed, stirred>>

\* sendto: the datagram is on the wire, or lost.
Send ==
  /\ finger # Nothing /\ sends < MaxSends
  /\ sends' = sends + 1
  /\ \/ UNCHANGED <<wire, shown, stirred>>
     \/ /\ wire' = Append(wire, finger.message)
        /\ stirred' = stirred \union Undoes(finger.message)
        /\ shown' = Without(shown, Undoes(finger.message))
  /\ finger' = IF finger.waits THEN finger ELSE Nothing
  /\ UNCHANGED <<touches, host, failed, touched>>

Wanted == finger.message.args[Len(finger.message.args)]

\* Mutant: a control that has a value is sent once and hoped for, too.
SeeHoped ==
  /\ finger # Nothing /\ sends > 0
  /\ shown' = IF finger.key \in stirred THEN shown ELSE With(shown, finger.key, Wanted)
  /\ finger' = Nothing
  /\ UNCHANGED <<sends, touches, wire, host, failed, touched, stirred>>

\* until() holds: the host shows the value. A finger that has sent MaxSends
\* without it has timed out: touch raises, and the performance ends there.
See ==
  /\ finger # Nothing /\ sends > 0 /\ ValueAt(host, finger.key) = Wanted
  /\ shown' = IF finger.key \in stirred THEN shown ELSE With(shown, finger.key, Wanted)
  /\ finger' = Nothing
  /\ UNCHANGED <<sends, touches, wire, host, failed, touched, stirred>>

\* The native receiver's one thread takes datagrams in the order of the wire;
\* _dispatch logs an exception of the handler and goes on.
_dispatch ==
  /\ wire # <<>> /\ wire' = Tail(wire)
  /\ LET after == _build_handlers(host, Head(wire).address, Head(wire).args)
     IN  IF after = {} THEN failed' = TRUE /\ UNCHANGED host
                       ELSE host' \in after /\ UNCHANGED failed
  /\ stirred' = IF wire' = <<>> THEN {} ELSE stirred
  /\ UNCHANGED <<finger, sends, touches, touched, shown>>

\* The controls that the bounds leave to be touched next.
Playable ==
  IF touches < MaxAny THEN build
  ELSE IF touched \subseteq UNION {Affects(c) : c \in Few} THEN Few ELSE {}

SurfaceNext ==
  \/ \E c \in Playable : \E x \in (IF Movable(c) THEN {0, 1} ELSE {1}) : TouchControl(c, x)
  \/ Send \/ See \/ _dispatch

SurfaceSpec == SurfaceInit /\ [][SurfaceNext]_surfaceVars

-----------------------------------------------------------------------------
\* Types: every value that a control moves stays within the control's range,
\* whichever control of the value was used; a reset, a sync and the constant
\* arguments of a button leave the host in range too.
SurfaceTypeOK ==
  /\ \A c \in Cells : ValueAt(host, Key(c)) \in c.span[1] .. c.span[2]
  /\ host.assign \in [Voices -> 1 .. 2] /\ DOMAIN host.content = 1 .. 2
  /\ Len(wire) <= MaxTouches * MaxSends

\* Every control of the layout sends what the server and the host understand
\* (build_layout.py:4-8): no datagram is without a handler, none makes its
\* handler raise.
EveryControlLands == ~failed

\* The surface agrees with the engine before a control is touched
\* (build_layout.py:65-68): whatever else has been touched, reset or synced, a
\* value that no touched control names is where its controls opened.
OpensTrue ==
  \A c \in Cells : Key(c) \notin touched => ValueAt(host, Key(c)) = position_of(c)

\* "every softcut set is idempotent" (13_osc_surface.py:137), so that resending
\* is harmless: the host keeps the value that a touch saw it take until a control
\* of that value is touched again. No late or repeated datagram of an earlier
\* touch moves it, nor one of a touch that returned because the host happened to
\* show its value already. What a reset or a sync on the wire is about to move is
\* left out, and so is what one moved while datagrams sent with it are still on
\* their way.
LastTouchStays == \A k \in DOMAIN shown : ValueAt(host, k) = shown[k]

\* docs/guide/norns.md:61, of reset(): "every voice back to defaults, and the
\* default buffer routing".
ResetRestores ==
  [][wire # <<>> /\ Head(wire).address = Top("softcut/reset") /\ wire' = Tail(wire) =>
       host'.voice = NewHost.voice /\ host'.assign = NewHost.assign]_surfaceVars
=============================================================================
