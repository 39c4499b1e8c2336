------------------------- MODULE MCConnectionCreate -------------------------
EXTENDS ConnectionCreate

\* mem_num of every RdmaConfig in dpu_main.cc and client_main.cc.
MCMemNum == 4

\* Every checked call of create and connectQp may fail.
MCFailCalls ==
  {"ibv_get_device_list", "num_devices", "ib_dev_id_by_name",
   "ibv_open_device", "ibv_query_gid", "ibv_create_comp_channel", "fcntl",
   "ibv_alloc_pd", "ibv_query_device", "ibv_query_port", "tx_depth_limit",
   "rx_depth_limit", "ibv_create_cq", "ibv_req_notify_cq", "ibv_reg_mr",
   "ibv_create_qp", "ibv_modify_qp", "ibv_modify_qp_rtr", "ibv_post_recv",
   "ibv_modify_qp_rts"}

\* The directories the scan may meet: "." and ".." (atoi gives 0,
\* reading them fails) and GID indices 0 and 1, each a RoCE v1 entry, a
\* RoCE v2 entry whose GID is not IPv4-mapped, or an eligible one, in
\* any readdir order.
MCDot == [idx |-> 0, type |-> "", ipv4 |-> FALSE]

MCGidEntries ==
  {[idx |-> i, type |-> t, ipv4 |-> v] :
     i \in {0, 1}, t \in {"IB/RoCE v1", "RoCE v2"}, v \in BOOLEAN}

MCDirs ==
  UNION {{[k \in 1 .. 4 |-> (<<MCDot, MCDot, e0, e1>>)[p[k]]] :
            p \in Permutations(1 .. 4)} :
         e0 \in {e \in MCGidEntries : e.idx = 0},
         e1 \in {e \in MCGidEntries : e.idx = 1}}

====
