--------------------------- MODULE MCTariffReview ---------------------------
EXTENDS TariffReview, TLC

CONSTANTS lower, higher, d1, d2

Symmetry == Permutations({d1, d2})

\* The tracked code 1 is re-rated, vanishes or stays; the untracked code 2
\* appears and is re-rated or vanishes.
MCFeeds ==
  {<< <<higher, lower>>, <<lower, higher>>, <<higher, higher>> >>,
   << <<Absent, lower>>, <<lower, Absent>>, <<lower, lower>> >>}
=============================================================================
