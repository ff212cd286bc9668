----------------------------- MODULE MCEtherload -----------------------------
\* Etherload with write queues of one run, of two runs and out of order.
EXTENDS Etherload

MCWriteLists == {<<1>>, <<1, 2>>, <<2, 1>>}
=============================================================================
