SPECIFICATION FairSpec
CONSTANTS
  mysql = mysql  redis = redis  dispatch = dispatch  scheduler = scheduler
  Service = {mysql, redis, dispatch, scheduler}
  DependsOn <- Dependencies
  LayerOf <- Layers
  Depth = 3
INVARIANTS OpenUsesOpen DownIsClosed ReadyMeansUp ClearedForGood HandlersHaveClients
PROPERTIES ShutsDown
CHECK_DEADLOCK FALSE
