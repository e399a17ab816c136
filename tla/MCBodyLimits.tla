---------------------------- MODULE MCBodyLimits ----------------------------
(* Windows of a second and of a second and a half, bodies without a rate,  *)
(* plain and gzip.  A rate takes two of the least reads in every tick.     *)
EXTENDS BodyLimits

MCConfigs ==
    [maxBytes : {0, 5}, minRate : {4}, window : {2}, maxRatio : {0}, gzip : {FALSE}]
    \cup [maxBytes : {0}, minRate : {4}, window : {3}, maxRatio : {0}, gzip : {FALSE}]
    \cup [maxBytes : {5}, minRate : {0}, window : {2}, maxRatio : {2}, gzip : {TRUE}]
MCSecond == 2
MCBombMin == 2
MCChunk == 2
MCMaxTotal == 7
MCMaxNow == 4
=============================================================================
