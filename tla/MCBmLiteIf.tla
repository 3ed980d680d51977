------------------------------ MODULE MCBmLiteIf ------------------------------
(***************************************************************************)
(* Calls for model checking BmLiteIf: every function, with data that does  *)
(* not fill the packet, fills it to the last byte (bep_template_put of 12  *)
(* bytes), or does not fit, and areas too small, too large and larger than *)
(* a uint16_t.                                                             *)
(***************************************************************************)
EXTENDS BmLiteIf

\* Before a function runs, one that leaves a command or an answer in the buffer that is
\* longer than most, whole or in part.
MCBefore == {enroll_add, bep_template_put(12), bep_image_get(5), bep_uart_speed_set,
   bep_version(2), bep_template_get_ids}

MCAll ==
  {sensor_wait_finger_present(0), enroll_add, bep_image_get_size, image_create,
   image_delete, bep_image_extract, bep_identify, bep_template_save,
   bep_template_remove_ram, bep_template_remove, bep_template_remove_all,
   bep_template_load_storage, bep_template_get_count, bep_template_get_ids,
   bep_sw_reset, bep_sensor_calibrate, bep_sensor_calibrate_remove,
   bep_unique_id_get, bep_uart_speed_set, bep_uart_speed_get, bep_sensor_reset}
  \cup {bep_image_get(size) : size \in {0, 2, WORD + 1}}
  \cup {bep_image_put(size) : size \in {3}}
  \cup {bep_template_get(size) : size \in {5, NULL}}
  \cup {bep_template_put(size) : size \in {0, 12, 13}}
  \cup {bep_version(len) : len \in {2}}

MCFunctions == <<MCBefore, MCAll>>

=============================================================================
