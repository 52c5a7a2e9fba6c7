SPECIFICATION MqttSpec
CONSTANTS
  POOL_SIZE = 2
  Q_SIZE = 3
  DropRange = 2
  None = nullptr
  HeapMayFail = FALSE
  Releasers = {"sink", "source"}
INVARIANT EveryEventAccounted
