---------------------------- MODULE MCApiService ----------------------------
EXTENDS ApiService

CONSTANTS mq, c1, c2
=============================================================================
