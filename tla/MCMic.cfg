CONSTANTS
  Format = {mono, stereo, deep}
  Accepted = {mono, stereo}
  Silence = silence
  MaxFormats = 3
SPECIFICATION MicSpec
INVARIANTS HostHearsRight EmbedderIsTold UnlistedOnlyAfterTermination
