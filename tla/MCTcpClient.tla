---------------------------- MODULE MCTcpClient ----------------------------
(* TcpClient with clock values from lwIP's opt.h; the pool is in the cfg.  *)
EXTENDS TcpClient
=============================================================================
