------------------------------ MODULE Startup ------------------------------
(***************************************************************************)
(* From the command line to running threads: main's checks, the gain       *)
(* decisions, the capture plan, the outputs, and the bring-up of the       *)
(* device, any step of which may end the program; and what the end of the  *)
(* program leaves open.                                                    *)
(***************************************************************************)
EXTENDS Options

CONSTANTS
  Turn,        \* 2^32: the phases of a channel's oscillator
  TunerGains,  \* the gains of the RTL's tuner, in tenths of a dB
  Errors       \* what librtlsdr may return instead of 0

MAX_TUNER_GAINS == 128

StartupParameters ==
  /\ Turn \in Nat \ {0}
  /\ TunerGains \in Seq(Int) /\ Len(TunerGains) <= MAX_TUNER_GAINS
  /\ \A e \in Errors : e \in Int /\ e < 0

ASSUME StartupAssumption == StartupParameters

VARIABLES
  phase,         \* the step main is at
  agc,           \* device.agc of the RSP
  asked,         \* the RSP's gains as the options left them (history)
  freq,          \* device.freq
  rate,          \* device.rate
  downsample,    \* the decimation towards a channel
  rate_channel,  \* the rate the channels' pipelines are told
  sinks,         \* outputs opened so far
  held,          \* whether the device is open (RTL) or selected (RSP)
  selected,      \* the program's note of it: device.dev, or device_selected
  record_file,   \* whether device.record_file is open
  decim          \* the API's decimation of 8 MHz, 0 while not set

plan       == <<freq, rate, downsample, rate_channel>>
handles    == <<held, selected>>
deviceVars == <<agc, asked, plan, sinks, handles, record_file, decim>>
vars       == <<optionVars, phase, deviceVars>>

\* What no step after the search for a device changes.
settled == <<binary, parse, given, channels, rate_in, audioVars, baseband,
             direct_sampling, dev_index, agc, asked, plan, sinks>>

\* main is running its threads at "run" and has torn them down at "ended"; it
\* returns a failure before device_open at "exit", and after it at "failed".
Phases == {"options", "check", "plan", "outputs", "search", "open", "params",
           "tune", "sample", "record", "settings", "run", "ended", "exit",
           "failed"}

DEFAULT_GRDB      == 59
DEFAULT_LNA_STATE == 0

FileInput == input # NoInput
Frequency(i) == channels[i].freq
FrequencySet == {Frequency(i) : i \in DOMAIN channels}

TypeOK ==
  /\ phase \in Phases
  /\ binary \in {"rtl", "rsp"}
  /\ parse \in {"reading", "done", "error", "usage"}
  /\ given \in 0 .. MaxOptions
  /\ channels \in Seq(Channel) /\ Len(channels) <= FREQUENCIES_LIMIT
  /\ rate_in \in Nat \ {0}
  /\ input \in [rate : Nat, center : Nat]
  /\ dev_index \in {"unset", "found", "none"}
  /\ deemph \in BOOLEAN /\ dc_block \in BOOLEAN
  /\ rate_audio \in Nat
  /\ direct_sampling \in {0, 1, 2}
  /\ gain_rdb \in {Unset} \cup 0 .. 59
  /\ lna_state \in {Unset} \cup 0 .. 2
  /\ gain \in Int
  /\ freq \in Nat /\ rate \in Nat /\ downsample \in Nat /\ rate_channel \in Nat
  /\ sinks \in 0 .. Len(channels)
  /\ decim \in {0, 1, 2, 4}
  /\ asked \in [rdb : {Unset} \cup 0 .. 59, lna : {Unset} \cup 0 .. 2]
  /\ record \in BOOLEAN /\ record_file \in BOOLEAN /\ agc \in BOOLEAN
  /\ held \in BOOLEAN /\ selected \in BOOLEAN
  /\ api_open \in BOOLEAN /\ connected \in BOOLEAN

Init ==
  /\ OptionsInit
  /\ phase = "options"
  /\ agc = TRUE
  /\ asked = [rdb |-> Unset, lna |-> Unset]
  /\ freq = 0
  /\ rate = 0
  /\ downsample = 0
  /\ rate_channel = 0
  /\ sinks = 0
  /\ held = FALSE
  /\ selected = FALSE
  /\ record_file = FALSE
  /\ decim = 0

\* main goes on, or returns EXIT_FAILURE.
Proceed(step) == phase' = step
Fail == phase' = "exit"

ParseOptions ==
  /\ phase = "options"
  /\ ReadOption
  /\ phase' = CASE parse' = "reading" -> "options"
                [] parse' = "done"    -> "check"
                [] OTHER              -> "exit"
  /\ UNCHANGED deviceVars

\* What main demands of the parsed options.
Usable ==
  /\ Len(channels) \in 1 .. FREQUENCIES_LIMIT - 1
  /\ ~(record /\ FileInput)
  /\ Len(channels) > 1 => \A i \in DOMAIN channels : ~IsStdout(channels[i].sink)

\* Mutant: only the gain that was given is set.
ApplyGainsGiven ==
  /\ agc' = (gain_rdb = Unset /\ lna_state = Unset)
  /\ UNCHANGED <<gain_rdb, lna_state>>

\* device_apply_options of the RSP: one gain control given turns the AGC off
\* and gives the other its default; a file has no gains.
ApplyGains ==
  LET manual == gain_rdb # Unset \/ lna_state # Unset
  IN /\ agc' = (~manual \/ FileInput)
     /\ IF agc'
        THEN UNCHANGED <<gain_rdb, lna_state>>
        ELSE /\ gain_rdb'  = IF gain_rdb = Unset THEN DEFAULT_GRDB ELSE gain_rdb
             /\ lna_state' = IF lna_state = Unset THEN DEFAULT_LNA_STATE
                             ELSE lna_state

Check ==
  /\ phase = "check"
  /\ asked' = [rdb |-> gain_rdb, lna |-> lna_state]
  /\ IF Usable
     THEN /\ Proceed("plan")
          /\ IF binary = "rsp" THEN ApplyGains
             ELSE UNCHANGED <<agc, gain_rdb, lna_state>>
     ELSE /\ Fail
          /\ UNCHANGED <<agc, gain_rdb, lna_state>>
  /\ UNCHANGED <<binary, parse, given, channels, rate_in, audioVars, baseband,
                 rtlGain, found, plan, sinks, handles, record_file, decim>>

-----------------------------------------------------------------------------
\* plan_capture, of a file of rate w and centre c: the plans for the channels,
\* none if one of them is outside of it.
PlansOfFile(w, c) ==
  IF \A f \in FrequencySet : InsideFile(w, c, rate_in, f)
  THEN FilePlan(rate_in, w)
  ELSE {}

\* The plans for channels that span lo to hi, none if they are refused.
Plans(lo, hi) ==
  IF FileInput
  THEN PlansOfFile(input.rate, input.center)
  ELSE HardwarePlan(binary, rate_in, Width(rate_in, Len(channels), hi - lo))

PlanCapture ==
  /\ phase = "plan"
  /\ \E lo, hi \in FrequencySet :
       /\ \A f \in FrequencySet : lo <= f /\ f <= hi
       /\ \/ /\ Plans(lo, hi) = {}
             /\ Fail
             /\ UNCHANGED plan
          \/ \E p \in Plans(lo, hi) :
               /\ freq' = IF FileInput THEN input.center ELSE Center(lo, hi - lo)
               /\ rate' = p.rate
               /\ downsample' = p.downsample
               /\ rate_channel' = p.rate \div p.downsample
               /\ Proceed("outputs")
  /\ UNCHANGED <<optionVars, agc, asked, sinks, handles, record_file, decim>>

-----------------------------------------------------------------------------
(* setup_pipelines.                                                        *)

\* A quotient rounded towards zero.
Truncated(a, b) == IF a < 0 THEN -((-a) \div b) ELSE a \div b

\* Mutant: a negative step becomes 0 when it is made unsigned.
ShiftStepClamped(f) ==
  LET step == IF rate > 0 THEN Truncated(-(f - freq) * Turn, rate) ELSE 0
  IN IF step < 0 THEN 0 ELSE step % Turn

\* How far the oscillator of a channel at f turns with each sample: back by
\* the channel's offset, a whole turn being the rate, on an unsigned number.
\* What a double rounds, a millionth of a step, is left out.
ShiftStep(f) ==
  IF rate > 0 THEN Truncated(-(f - freq) * Turn, rate) % Turn ELSE 0

\* What pipeline_process and the filters read of channel i's configuration.
ChannelSetup(i) ==
  [downsample_factor       |-> downsample,
   frequency_shift_enabled |-> Frequency(i) # freq,
   shift_step              |-> ShiftStep(Frequency(i)),
   mode                    |-> channels[i].mode,
   deemph_enabled          |-> deemph,
   dc_block_enabled        |-> dc_block,
   demod_rate              |-> rate_channel,
   output_rate             |-> rate_audio]

\* The channels' outputs are opened in turn.
OpeningNext(kind) ==
  /\ phase = "outputs"
  /\ sinks < Len(channels)
  /\ channels[sinks + 1].sink.kind = kind
  /\ UNCHANGED <<optionVars, agc, asked, plan, handles, record_file, decim>>

Opened     == sinks' = sinks + 1 /\ UNCHANGED phase
OpenFailed == Fail /\ UNCHANGED sinks

\* Whether a channel before i listens on i's port already.
PortTaken(i) ==
  \E j \in 1 .. i - 1 : /\ channels[j].sink.kind = "tcp"
                        /\ channels[j].sink.port = channels[i].sink.port

\* tcp_init: a second socket on one port is refused.
TcpInit ==
  /\ OpeningNext("tcp")
  /\ \/ ~PortTaken(sinks + 1) /\ Opened
     \/ OpenFailed

\* udp_init: no socket, or a host that is not an address.
UdpInit ==
  /\ OpeningNext("udp")
  /\ Opened \/ OpenFailed

\* A file is created; stdout is there already.
OpenFile ==
  /\ OpeningNext("file")
  /\ \/ Opened
     \/ ~IsStdout(channels[sinks + 1].sink) /\ OpenFailed

\* Mutant: the history is taken to be long enough.
FiltersFitUnchecked == rate_channel # rate_audio => rate_audio > 0

\* decimator_create refuses factors whose history is longer than decimator_tail,
\* and liquid a resampler to no rate at all.
FiltersFit ==
  /\ downsample <= MaxDownsample
  /\ rate_channel # rate_audio => rate_audio > 0

\* The filters, if the channels have any, are allocated in dsp_init_filters.
BuildFilters ==
  /\ phase = "outputs"
  /\ sinks = Len(channels)
  /\ \/ /\ FiltersFit
        /\ Proceed(IF FileInput THEN "run" ELSE "search")
     \/ /\ downsample > 1 \/ rate_channel # rate_audio \/ deemph \/ dc_block
        /\ Fail
  /\ UNCHANGED <<optionVars, deviceVars>>

-----------------------------------------------------------------------------
(* bringup_device.                                                         *)

\* device_close: what the program noted as open is given back (api_locked is
\* never set).
DeviceClose ==
  /\ held' = (held /\ ~selected) /\ selected' = FALSE
  /\ connected' = (connected /\ ~api_open) /\ api_open' = FALSE

\* Without -d the first device is looked for.  A search without result ends
\* the program before device_open.
SearchDevice ==
  /\ phase = "search"
  /\ IF dev_index = "unset" THEN Search ELSE UNCHANGED found
  /\ IF dev_index' = "found" THEN Proceed("open") ELSE Fail
  /\ UNCHANGED <<binary, parse, given, channels, rate_in, audioVars, baseband,
                 rtlGain, rspGain, deviceVars>>

\* device_open of the RTL; main closes what it finds open.
OpenRtl ==
  /\ phase = "open" /\ binary = "rtl"
  /\ \/ held' = TRUE /\ selected' = TRUE /\ Proceed("tune") /\ UNCHANGED api
     \/ DeviceClose /\ phase' = "failed"
  /\ UNCHANGED <<settled, gain, rspGain, record_file, decim>>

\* Mutant: the selection is not noted.
SelectDeviceUnnoted ==
  /\ phase = "open" /\ binary = "rsp"
  /\ \/ held' = TRUE /\ Proceed("params") /\ UNCHANGED <<selected, api>>
     \/ DeviceClose /\ phase' = "failed"
  /\ UNCHANGED <<settled, gain, rspGain, record_file, decim>>

\* device_open of the RSP, up to its selection: the list may have become
\* empty, or too short, since the search, and the daemon may refuse.
SelectDevice ==
  /\ phase = "open" /\ binary = "rsp"
  /\ \/ held' = TRUE /\ selected' = TRUE /\ Proceed("params") /\ UNCHANGED api
     \/ DeviceClose /\ phase' = "failed"
  /\ UNCHANGED <<settled, gain, rspGain, record_file, decim>>

\* The rest of it: the selected device may have no parameters to set.
GetParams ==
  /\ phase = "params"
  /\ \/ Proceed("tune") /\ UNCHANGED <<handles, api>>
     \/ DeviceClose /\ phase' = "failed"
  /\ UNCHANGED <<settled, gain, rspGain, record_file, decim>>

\* verbose_set_frequency; the RSP's is set later, with the settings.
Tune ==
  /\ phase = "tune"
  /\ \/ Proceed("sample") /\ UNCHANGED <<handles, api>>
     \/ binary = "rtl" /\ DeviceClose /\ phase' = "failed"
  /\ UNCHANGED <<settled, gain, rspGain, record_file, decim>>

\* The rates a device accepts (librtlsdr's, and verbose_set_sample_rate's).
Supported(r) ==
  IF binary = "rtl"
  THEN \/ r \in RTL_RATE_MIN_LOW .. RTL_RATE_MAX_LOW
       \/ r \in RTL_RATE_MIN_HIGH .. RTL_RATE_MAX_HIGH
  ELSE r \in MIN_CAPTURE_RATE .. MAX_CAPTURE_RATE

SetSampleRate ==
  /\ phase = "sample"
  /\ \/ /\ Supported(rate)
        /\ Proceed(IF record THEN "record" ELSE "settings")
        /\ UNCHANGED <<handles, api>>
     \/ /\ binary = "rtl" \/ ~Supported(rate)
        /\ DeviceClose /\ phase' = "failed"
  /\ UNCHANGED <<settled, gain, rspGain, record_file, decim>>

\* fopen of the recording.
OpenRecording ==
  /\ phase = "record"
  /\ \/ record_file' = TRUE /\ Proceed("settings") /\ UNCHANGED <<handles, api>>
     \/ DeviceClose /\ phase' = "failed" /\ UNCHANGED record_file
  /\ UNCHANGED <<settled, gain, rspGain, decim>>

DecimationFor(r) ==
  IF r <= 2000000 THEN 4 ELSE IF r <= 4000000 THEN 2 ELSE 1

\* With the AGC on the RSP's gains still have to be valid.
ApplyRspSettings ==
  /\ phase = "settings" /\ binary = "rsp"
  /\ decim' = DecimationFor(rate)
  /\ gain_rdb'  = IF agc /\ gain_rdb = Unset THEN DEFAULT_GRDB ELSE gain_rdb
  /\ lna_state' = IF agc /\ lna_state = Unset THEN DEFAULT_LNA_STATE
                  ELSE lna_state
  /\ Proceed("run")
  /\ UNCHANGED <<settled, gain, handles, api, record_file>>

Distance(a, b) == IF a < b THEN b - a ELSE a - b

\* The scan of nearest_gain over the tuner's gains, up to the i-th: a later
\* gain has to be nearer than the ones before it.
NearestOf(target) ==
  LET nearest[i \in 1 .. Len(TunerGains)] ==
        IF /\ i > 1
           /\ Distance(target, nearest[i - 1]) <= Distance(target, TunerGains[i])
        THEN nearest[i - 1] ELSE TunerGains[i]
  IN nearest[Len(TunerGains)]

\* nearest_gain: the tuner may not take manual gains, or have none.
nearest_gain(target) ==
  Errors \cup (IF TunerGains = <<>> THEN {0} ELSE {NearestOf(target)})

\* Of the RTL's settings only direct sampling can fail; a recording stays open.
ApplyRtlSettings ==
  /\ phase = "settings" /\ binary = "rtl"
  /\ gain' \in IF gain = AUTO_GAIN THEN {gain} ELSE nearest_gain(gain)
  /\ \/ Proceed("run") /\ UNCHANGED <<handles, api>>
     \/ direct_sampling # 0 /\ DeviceClose /\ phase' = "failed"
  /\ UNCHANGED <<settled, rspGain, record_file, decim>>

-----------------------------------------------------------------------------
\* The end of teardown, when every thread was joined: the recording is closed,
\* and the device unless a file was played.
Teardown ==
  /\ phase = "run"
  /\ record_file' = FALSE
  /\ IF FileInput THEN UNCHANGED <<handles, api>> ELSE DeviceClose
  /\ phase' = "ended"
  /\ UNCHANGED <<settled, gain, rspGain, decim>>

Ended == phase \in {"exit", "failed", "ended"} /\ UNCHANGED vars

Next ==
  \/ ParseOptions \/ Check \/ PlanCapture
  \/ TcpInit \/ UdpInit \/ OpenFile \/ BuildFilters
  \/ SearchDevice \/ OpenRtl \/ SelectDevice \/ GetParams
  \/ Tune \/ SetSampleRate \/ OpenRecording
  \/ ApplyRspSettings \/ ApplyRtlSettings
  \/ Teardown \/ Ended

Spec == Init /\ [][Next]_vars

-----------------------------------------------------------------------------
(* Properties.                                                             *)

Planned == downsample # 0

Offset(f) == IF f < freq THEN freq - f ELSE f - freq

\* Every channel, with its whole width, lies inside the band the device
\* captures, give or take the halves that integer division drops: whatever
\* the spread of the channels, the snapping and the rounding of the centre.
ChannelsInBand ==
  Planned => \A f \in FrequencySet : 2 * Offset(f) + rate_in <= rate + 1

\* Decimation leaves a channel no narrower than asked for, save for 1 Hz of a
\* recording that is no wider than the channel, and a larger factor would not:
\* "The true channel rate is capture / downsample" (README.md:180).
DecimationSound ==
  Planned =>
    /\ rate_channel + 1 >= rate_in
    /\ rate - downsample * rate_channel \in 0 .. downsample - 1
    /\ (downsample + 1) * rate_in > rate

\* The oscillator of every channel cancels the channel's offset from the
\* centre, whichever side it is on, to within one unit of its step: a whole
\* turn per sample is the rate ("negative offsets wrap naturally through the
\* unsigned accumulator", main.c:176).  A channel without offset has none.
ChannelsShifted ==
  Planned =>
    \A i \in DOMAIN channels :
      LET setup == ChannelSetup(i)
          shift == IF setup.frequency_shift_enabled THEN setup.shift_step ELSE 0
          off   == (shift * rate + (Frequency(i) - freq) * Turn) % (Turn * rate)
      IN off < rate \/ Turn * rate - off < rate

\* Once device_open was called, the program ends with neither the device held
\* nor the API's client open, whichever step of the bring-up failed, or when
\* it was torn down: device_close gives back only what the program noted as
\* open, so every step has to note what it opened before another can fail.
DeviceReleased ==
  phase \in {"failed", "ended"} /\ ~FileInput => ~held /\ ~connected

\* What the RSP is told agrees: its 8 MHz, decimated, are the planned rate.
\* The AGC is on if no gain was asked for; a gain that was asked for is the one
\* set, and one that was not is its default, "max IF gain reduction, max LNA
\* gain" (rsp/device.c:12), wherever of the two places it was filled in.  For
\* the LNA README.md:142 and rsp/device.c:369 name another default, 2.
RspConsistent ==
  phase = "run" /\ binary = "rsp" /\ ~FileInput =>
    /\ decim * rate = MAX_CAPTURE_RATE
    /\ agc <=> asked.rdb = Unset /\ asked.lna = Unset
    /\ gain_rdb  = IF asked.rdb = Unset THEN 59 ELSE asked.rdb
    /\ lna_state = IF asked.lna = Unset THEN 0 ELSE asked.lna

\* How a recording is planned when it is played back, with the same channels,
\* from the rate and the centre that were printed.
Replay == PlansOfFile(Float(rate), Float(freq))

\* It is decimated as it was live, or refused, which is not the "1:1 replay" of
\* README.md:162.  Refused it is only for a channel that fits the recording but
\* comes within the rounding of the centre to a float, at most 64 Hz, of its
\* edge.  A rate raised out of the RTL's gap
\* may leave channels so narrow that playback would refuse the decimation, but
\* then no filter is built for it, and nothing is recorded.
ReplayFaithful ==
  phase = "run" /\ record_file =>
    LET off  == Distance(Float(freq), freq)
        edge == (rate \div 2) - (rate_in \div 2)
    IN /\ off <= 64
       /\ \A f \in FrequencySet : Offset(f) <= edge
       /\ \/ Replay = {Plan(rate, downsample)}
          \/ Replay = {} /\ \E f \in FrequencySet : Offset(f) + off > edge

\* The rate planned for the hardware is one the hardware has: "Each backend
\* snaps the required capture width to what its hardware supports"
\* (README.md:172).
PlannedRateSupported == Planned /\ ~FileInput => Supported(rate)

\* The one way it is not: several channels so close together that the RTL is
\* asked for less than its lower range begins with.  Rates never fall between
\* the ranges or beyond them ("RTL2832U only supports 225001-300000 and
\* 900001-3200000 Hz", rtl/device.c:256), the RSP's are always supported, and
\* so is what a single channel needs.
UnsupportedOnlyLow ==
  Planned /\ ~FileInput /\ ~Supported(rate) =>
    /\ binary = "rtl" /\ rate < RTL_RATE_MIN_LOW
    /\ Len(channels) > 1
    /\ \A f, g \in FrequencySet : f - g + rate_in < RTL_RATE_MIN_LOW

\* The tuner is set to one of its own gains, and none is nearer to the one
\* asked for ("nearest_gain", rtl/device.c:24), unless librtlsdr fails or names
\* no gains.
GainNearest ==
  [][phase = "settings" /\ gain' # gain =>
       \/ gain' \in Errors
       \/ TunerGains = <<>> /\ gain' = 0
       \/ /\ \E i \in DOMAIN TunerGains : gain' = TunerGains[i]
          /\ \A i \in DOMAIN TunerGains :
               Distance(gain, gain') <= Distance(gain, TunerGains[i])]_vars
=============================================================================
