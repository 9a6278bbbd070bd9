CONSTANTS
  FREQUENCIES_LIMIT = 4
  MaxOptions = 2
  FreqLists <- MCFreqLists
  ModeLists <- MCModeLists
  OutputLists <- MCOutputLists
  Turn = 64
  TunerGains <- MCTunerGains
  Errors <- MCErrors
  AudioRates <- MCAudioRates
  Enables <- MCEnables
  Gains <- MCGains
  Names <- MCNames
  Rates <- MCRates
  Recordings <- MCRecordings
  GainReductions <- MCGainReductions
  LnaStates <- MCLnaStates
SPECIFICATION Spec
INVARIANT PlannedRateSupported
