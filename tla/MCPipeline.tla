----------------------------- MODULE MCPipeline -----------------------------
(* An instance of Pipeline with the filter length of the code (m = 4) and  *)
(* small factors: histories of 16 and 24 samples, chunks from one sample   *)
(* to more than a history.                                                 *)
EXTENDS Pipeline

Setup(by, step, pairs, mode, on, demod_rate, output_rate) ==
  [downsample_factor       |-> by,
   frequency_shift_enabled |-> step # 0,
   shift_step              |-> step,
   decim_taps_pairs        |-> pairs,
   mode                    |-> mode,
   deemph_enabled          |-> "deemph" \in on,
   dc_block_enabled        |-> "dc" \in on,
   demod_rate              |-> demod_rate,
   output_rate             |-> output_rate]

\* Every mode; both audio filters, one or none; rates up, down and equal; with
\* and without the shift, the decimator and the vector kernels.
MCSetups ==
  {Setup(1, 0,  FALSE, "fm",  {"deemph", "dc"}, 1, 4),
   Setup(2, 3,  TRUE,  "fm",  {"deemph"},       3, 2),
   Setup(2, 0,  FALSE, "am",  {"dc"},           3, 5),
   Setup(3, 13, TRUE,  "fm",  {},               1, 1),
   Setup(3, 1,  FALSE, "usb", {"deemph", "dc"}, 2, 1),
   Setup(2, 13, TRUE,  "raw", {"deemph", "dc"}, 1, 4),
   Setup(1, 3,  FALSE, "raw", {},               2, 1),
   Setup(3, 0,  TRUE,  "lsb", {"dc"},           1, 1)}
MCLengths == {1, 2, 5, 7, 17, 26, 33}
=============================================================================
