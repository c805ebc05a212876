CONSTANTS
  Callbacks = {c1}
  CallbackWorkers = {w1}
  Sweepers = {s1}
  MAX_CALLBACK_ATTEMPTS = 2
  NoCallback = NoCallback
SPECIFICATION ScheduledSpec
PROPERTY QueuedIsSettled
