---------------------------- MODULE MCApiServer ----------------------------
EXTENDS ApiServer

CONSTANTS r1, r2

MCRequests == {r1, r2}
MCPoolSize == 2
MCGrace == 2
MCLoads == {{"relay", "retention"}, {"deadLetter"}}
MCMaxRows == 1
MCMaxFaults == 2
=============================================================================
