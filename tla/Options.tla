------------------------------ MODULE Options ------------------------------
(***************************************************************************)
(* The command line: options_parse takes the options in the order given,   *)
(* and what -M and -O mean depends on the channels -f has added so far.    *)
(*                                                                         *)
(* An option's argument is what its text denotes: a list of frequencies,   *)
(* of modes or of outputs, one element per comma-separated value.          *)
(***************************************************************************)
EXTENDS CapturePlan, Sequences

CONSTANTS
  FREQUENCIES_LIMIT,  \* entries in the channel tables
  MaxOptions,         \* bound: options on the command line
  FreqLists,          \* arguments of -f
  ModeLists,          \* arguments of -M
  Names,              \* file names and hosts
  OutputLists,        \* arguments of -O
  Rates,              \* arguments of -s
  AudioRates,         \* arguments of -r
  Recordings,         \* arguments of -I: records of a rate and a center
  Enables,            \* arguments of -E
  Gains,              \* arguments of -g of the RTL, in tenths of a dB
  GainReductions,     \* arguments of -g of the RSP
  LnaStates           \* arguments of -L of the RSP

\* What an argument of -O splits into: tcp:PORT, udp:HOST:PORT or a file name.
\* A port that is missing, or no number, is 0.
OutputValue == [kind : {"tcp", "udp", "file"}, name : Names, port : Int]

File(name) == [kind |-> "file", name |-> name, port |-> 0]
Stdout     == File("-")

IsStdout(output) == output.kind = "file" /\ output.name = "-"

\* A mode that the parser refuses.
BadMode == "no such mode"

Modes == {"fm", "raw", "am", "usb", "lsb"}

OptionParameters ==
  /\ FREQUENCIES_LIMIT \in Nat \ {0}
  /\ MaxOptions \in Nat
  /\ FreqLists \subseteq Seq(0 .. INT_MAX)
  /\ ModeLists \subseteq Seq(Modes \cup {"wbfm", BadMode})
  /\ "-" \in Names
  /\ OutputLists \subseteq Seq(OutputValue)
  /\ Rates \subseteq Nat \ {0}          \* -s 0 would divide by zero
  /\ \A r \in Rates : r < Significands    \* exact as a float
  /\ Recordings \subseteq [rate   : 0 .. Significands - 1,
                            center : 0 .. INT_MAX]
  /\ AudioRates \subseteq Nat
  /\ Gains \subseteq Int
  /\ GainReductions \subseteq Int
  /\ LnaStates \subseteq Int

ASSUME OptionAssumption == OptionParameters

VARIABLES
  binary,           \* which backend was linked: "rtl" or "rsp"
  parse,            \* "reading", "done", "error" or "usage"
  given,            \* options read so far
  channels,         \* options_t.channels[0 .. channel_count - 1]
  rate_in,          \* the channel rate
  deemph,           \* whether the audio is de-emphasised
  dc_block,         \* whether its DC is blocked
  rate_audio,
  input,            \* the -I recording, or NoInput
  record,           \* whether -R was given
  dev_index,        \* "unset", "found", or "none" after a search that failed
  gain,             \* device.gain of the RTL
  direct_sampling,  \* device.direct_sampling of the RTL
  gain_rdb,         \* device.gain_rdb of the RSP
  lna_state,        \* device.lna_state of the RSP
  api_open,         \* the program's note that it opened the SDRplay API
  connected         \* whether the API's client is open at the vendor's daemon

audioVars  == <<deemph, dc_block, rate_audio>>
baseband   == <<input, record>>
rtlGain    == <<gain, direct_sampling>>
rspGain    == <<gain_rdb, lna_state>>
api        == <<api_open, connected>>
found      == <<dev_index, api>>
optionVars == <<binary, parse, given, channels, rate_in, audioVars, baseband,
                rtlGain, rspGain, found>>

NoInput   == [rate |-> 0, center |-> 0]
Unset     == -1
AUTO_GAIN == -100

DEFAULT_OUTPUT_RATE == 48000

Channel == [freq : 0 .. INT_MAX, mode : Modes, sink : OutputValue]

NewChannel(f) == [freq |-> f, mode |-> "fm", sink |-> Stdout]

OptionsInit ==
  /\ binary \in {"rtl", "rsp"}
  /\ parse = "reading"
  /\ given = 0
  /\ channels = <<>>
  /\ rate_in = DEFAULT_SAMPLE_RATE
  /\ deemph = FALSE
  /\ dc_block = FALSE
  /\ rate_audio = DEFAULT_OUTPUT_RATE
  /\ input = NoInput
  /\ record = FALSE
  /\ dev_index = "unset"
  /\ gain = AUTO_GAIN
  /\ direct_sampling = 0
  /\ gain_rdb = Unset
  /\ lna_state = Unset
  /\ api_open = FALSE
  /\ connected = FALSE

\* One more option is read.
Read ==
  /\ parse = "reading"
  /\ given < MaxOptions
  /\ given' = given + 1
  /\ UNCHANGED binary

\* What an option may leave as it was.
Unaffected == UNCHANGED <<channels, rate_in, audioVars, baseband, rtlGain,
                          rspGain, found>>

\* The option is refused: options_parse returns -1.
Refuse == parse' = "error" /\ Unaffected

\* It is taken, and changes nothing here.
Ignore == UNCHANGED parse /\ Unaffected

-----------------------------------------------------------------------------
\* Mutant: the table's limit is not tested.
AddChannelsUnbounded(fs) ==
  [i \in 1 .. Len(channels) + Len(fs) |->
     IF i <= Len(channels) THEN channels[i]
     ELSE NewChannel(fs[i - Len(channels)])]

\* add_channel for each value; the ones past the limit are dropped.
AddChannels(fs) ==
  LET wanted == Len(channels) + Len(fs)
      count  == IF wanted <= FREQUENCIES_LIMIT THEN wanted ELSE FREQUENCIES_LIMIT
  IN [i \in 1 .. count |->
        IF i <= Len(channels) THEN channels[i]
        ELSE NewChannel(fs[i - Len(channels)])]

Frequencies ==
  /\ Read
  /\ \E fs \in FreqLists : channels' = AddChannels(fs)
  /\ UNCHANGED <<parse, rate_in, audioVars, baseband, rtlGain, rspGain, found>>

\* The value of a list that channel i takes: its own, or the only one.
ValueFor(list, i) == IF Len(list) = 1 THEN list[1] ELSE list[i]

\* apply_modulation: wbfm is fm at a rate of its own and with de-emphasis, for
\* every channel.
Mode(m) == IF m = "wbfm" THEN "fm" ELSE m

\* -M before any -f applies to nothing and is not even looked at.
Modulation ==
  /\ Read
  /\ \E ms \in ModeLists :
       LET wbfm == \E i \in DOMAIN ms : ms[i] = "wbfm"
       IN \/ channels = <<>> /\ Ignore
          \/ /\ channels # <<>>
             /\ Len(ms) \in {1, Len(channels)}
             /\ \A i \in DOMAIN channels : ValueFor(ms, i) # BadMode
             /\ channels' = [i \in DOMAIN channels |->
                               [channels[i] EXCEPT !.mode = Mode(ValueFor(ms, i))]]
             /\ rate_in' = IF wbfm THEN WBFM_SAMPLE_RATE ELSE rate_in
             /\ deemph' = (deemph \/ wbfm)
             /\ UNCHANGED <<parse, dc_block, rate_audio, baseband, rtlGain,
                            rspGain, found>>
          \/ /\ channels # <<>>
             /\ \/ Len(ms) \notin {1, Len(channels)}
                \/ \E i \in DOMAIN ms : ms[i] = BadMode
             /\ Refuse

\* What parse_output_option takes.
Accepted(output) ==
  IF output.kind = "file" THEN output.name # "" ELSE output.port \in 1 .. 65535

\* -O needs one value per channel; before any -f it is dropped.
Output ==
  /\ Read
  /\ \E os \in OutputLists :
       \/ channels = <<>> /\ Ignore
       \/ /\ channels # <<>>
          /\ Len(os) = Len(channels)
          /\ \A i \in DOMAIN os : Accepted(os[i])
          /\ channels' = [i \in DOMAIN channels |->
                            [channels[i] EXCEPT !.sink = os[i]]]
          /\ UNCHANGED <<parse, rate_in, audioVars, baseband, rtlGain, rspGain,
                         found>>
       \/ /\ channels # <<>>
          /\ \/ Len(os) # Len(channels)
             \/ \E i \in DOMAIN os : ~Accepted(os[i])
          /\ Refuse

SampleRate ==
  /\ Read
  /\ \E r \in Rates : rate_in' = r
  /\ UNCHANGED <<parse, channels, audioVars, baseband, rtlGain, rspGain, found>>

AudioRate ==
  /\ Read
  /\ \E r \in AudioRates : rate_audio' = r
  /\ UNCHANGED <<parse, channels, rate_in, deemph, dc_block, baseband, rtlGain,
                 rspGain, found>>

\* -x: what it sets is a shutdown at a time of its own, above zero.
RunTimeout == Read /\ (Ignore \/ Refuse)

\* -E: what is not for main is for the backend.
EnableDcBlock ==
  /\ Read
  /\ "dc" \in Enables
  /\ dc_block' = TRUE
  /\ UNCHANGED <<parse, channels, rate_in, deemph, rate_audio, baseband,
                 rtlGain, rspGain, found>>

EnableDeemphasis ==
  /\ Read
  /\ "deemp" \in Enables
  /\ deemph' = TRUE
  /\ UNCHANGED <<parse, channels, rate_in, dc_block, rate_audio, baseband,
                 rtlGain, rspGain, found>>

\* -I once, with a rate and a center above zero, kept as floats.  Without a
\* file name it leaves input_file empty, and the program without a recording.
InputFile ==
  /\ Read
  /\ \E i \in Recordings, name \in Names :
       \/ (input # NoInput \/ i.rate <= 0 \/ i.center <= 0) /\ Refuse
       \/ /\ input = NoInput /\ i.rate > 0 /\ i.center > 0
          /\ \/ name = "" /\ Ignore
             \/ /\ name # ""
                /\ input' = [rate |-> Float(i.rate), center |-> Float(i.center)]
                /\ UNCHANGED <<parse, channels, rate_in, audioVars, record,
                               rtlGain, rspGain, found>>

\* -R once, and with a file name.
RecordFile ==
  /\ Read
  /\ \E name \in Names :
       IF record \/ name = ""
       THEN Refuse
       ELSE /\ record' = TRUE
            /\ UNCHANGED <<parse, channels, rate_in, audioVars, input, rtlGain,
                           rspGain, found>>

\* device_ensure_open: the API is opened unless the program noted that it is.
ApiOpened == IF api_open THEN UNCHANGED api
             ELSE api_open' = TRUE /\ connected' = TRUE
ApiFails  == ~api_open /\ UNCHANGED api

\* verbose_device_search: the RSP opens the API to list its devices, and
\* leaves it open whatever it finds.
Search ==
  \/ /\ dev_index' \in {"found", "none"}
     /\ IF binary = "rsp" THEN ApiOpened ELSE UNCHANGED api
  \/ binary = "rsp" /\ ApiFails /\ dev_index' = "none"

Device ==
  /\ Read
  /\ Search
  /\ UNCHANGED <<parse, channels, rate_in, audioVars, baseband, rtlGain, rspGain>>

-----------------------------------------------------------------------------
(* device_parse_option of the two backends.                                *)

RtlGain ==
  /\ Read
  /\ binary = "rtl"
  /\ \E g \in Gains : gain' = g
  /\ UNCHANGED <<parse, channels, rate_in, audioVars, baseband, direct_sampling,
                 rspGain, found>>

RspGain ==
  /\ Read
  /\ binary = "rsp"
  /\ \E g \in GainReductions :
       IF g \in 0 .. 59
       THEN /\ gain_rdb' = g
            /\ UNCHANGED <<parse, channels, rate_in, audioVars, baseband, rtlGain,
                           lna_state, found>>
       ELSE Refuse

\* -p and -T: the tuner of the RTL is told and nothing depends on it; the RSP
\* ignores them.
CorrectionOrBias == Read /\ Ignore

\* The RTL has no -L.
Lna ==
  /\ Read
  /\ \E s \in LnaStates :
       \/ /\ binary = "rsp" /\ s \in 0 .. 2
          /\ lna_state' = s
          /\ UNCHANGED <<parse, channels, rate_in, audioVars, baseband, rtlGain,
                         gain_rdb, found>>
       \/ binary = "rsp" /\ s \notin 0 .. 2 /\ Refuse
       \/ binary = "rtl" /\ parse' = "usage" /\ Unaffected

\* -E direct and direct2; the RSP ignores every other -E, the RTL refuses it.
EnableDirect ==
  /\ Read
  /\ \E e \in Enables \ {"dc", "deemp"} :
       \/ binary = "rsp" /\ Ignore
       \/ /\ binary = "rtl" /\ e \in {"direct", "direct2"}
          /\ direct_sampling' = IF e = "direct" THEN 1 ELSE 2
          /\ UNCHANGED <<parse, channels, rate_in, audioVars, baseband, gain,
                         rspGain, found>>
       \/ binary = "rtl" /\ e \notin {"direct", "direct2"} /\ Refuse

\* -h, or an option of neither program.
Usage ==
  /\ Read
  /\ parse' = "usage"
  /\ Unaffected

\* getopt has no option left.
EndOfOptions ==
  /\ parse = "reading"
  /\ parse' = "done"
  /\ UNCHANGED <<binary, given>>
  /\ Unaffected

ReadOption ==
  \/ Frequencies \/ Modulation \/ Output \/ SampleRate \/ AudioRate \/ RunTimeout
  \/ EnableDcBlock \/ EnableDeemphasis \/ InputFile \/ RecordFile \/ Device
  \/ RtlGain \/ RspGain \/ CorrectionOrBias \/ Lna \/ EnableDirect
  \/ Usage \/ EndOfOptions
=============================================================================
